---------------------------- MODULE Spec2Model ----------------------------
(***************************************************************************)
(* The worker runtime of src/src/main.rs: the supervisor (main), the       *)
(* assignment pipeline loop it spawns, and the per-assignment tasks the    *)
(* loop spawns, sharing a tokio semaphore, the dedup window, the bus and   *)
(* the metrics registry.                                                   *)
(***************************************************************************)
EXTENDS Integers, Sequences, FiniteSets, Bags, TLC

(***************************************************************************)
(* Bounds of the model.                                                    *)
(***************************************************************************)
\* Events the environment produces in one run: a message on the assign
\* subject, an I/O call that fails, the end of the subscription stream, a
\* tick of the heartbeat interval.
MaxEvents == 3
\* Distinct assignment ids the producer uses.
NumIds == 2
\* Largest WORKER_MAX_CONCURRENCY explored (every value 1..MaxConcurrency).
MaxConcurrency == 2
\* Largest RESULT_PUBLISH_MAX_RETRIES explored (every value 0..MaxRetries).
MaxRetries == 1
\* Capacity handed to Dedup::new (4096 in main; the type takes any capacity).
capacity == 1
\* DEFAULT_JOB_TIMEOUT_MS of the run.
default_timeout_ms == 100
\* The timeout_ms some payloads carry.
PayloadTimeout == 50
\* Wall time a handler that returns in time reports.
HandlerElapsed == 7
\* GET /readyz requests in one run.
MaxRequests == 3
\* Dedup on its own: largest capacity, keys, and inserts in one run.
MaxCapacity == 3
NumKeys == 4
MaxInserts == 5
\* DLQ limits, scaled: DLQ_MAX_BYTES in MinDlqBytes..MaxDlqBytes, a record's line
\* shorter than the smallest DLQ_MAX_BYTES, DayLen clock ticks to a day
MinDlqBytes == 3
MaxDlqBytes == 4
MaxDlqTotal == 6
MaxDlqRotations == 2
MaxAgeDays == 1
MaxLineLen == 2
DayLen == 2
MaxTime == 4
MaxWrites == 8
\* readings of Utc::now() in a run of the heartbeat producers
MaxClock == 3
\* length of the strings handed to the subject validator
MaxSubjectLen == 3
\* largest magnitude of a timeout_ms handed to the timeout extraction
MaxTimeoutMs == 40
\* most retries already made when a result publish fails again
MaxAttempt == 8
\* SQL jobs running at once
MaxSqlJobs == 3

VARIABLES
    cfg,            \* Config: max_concurrency, result_publish_max_retries
    readiness,      \* AtomicBool readiness
    shutdown,       \* AtomicBool shutdown (the draining flag)
    shutdown_rx,    \* broadcast channel as seen by the loop's receiver
    subscription,   \* "active" | "ended" | "unsubscribed"
    semaphore,      \* [permits, waiters]: tokio::sync::Semaphore
    dedup,          \* Dedup: [set, queue]
    mainPc,         \* where the supervisor is
    loopPc,         \* where the pipeline loop is
    msg,            \* the loop's last read: [n, payload, log], n-th read of the run
    tasks,          \* the spawned tasks, in spawn order
    resultBus,      \* bag of publish calls on the result subject
    dlqBus,         \* bag of publish calls on the DLQ subject
    dlqFile,        \* bag of write_deadletter_to_file calls
    hbLog,          \* heartbeats published, in order
    metrics,        \* the metrics registry
    env,            \* number of environment events so far
    health,         \* the /readyz handler: [pc, draining, answers]
    inserted,       \* keys handed to Dedup::insert by a caller other than the loop
    disk,           \* the DLQ directory, its limits and the clock: [cfg, now, active, rotated, writes, last]
    stamps,         \* heartbeats stamped and not yet handed to publish: [now, loop, main]
    call,           \* one part of the crate run on its own: a call [op, arg, ret], or the SQL handler's cache and jobs
    taskLog         \* the `Task state changed` lines, by accepted assignment: [assignment_id, states]

vars == <<cfg, readiness, shutdown, shutdown_rx, subscription, semaphore, dedup,
          mainPc, loopPc, msg, tasks, resultBus, dlqBus, dlqFile,
          hbLog, metrics, env, health, inserted, disk, stamps, call, taskLog>>

(***************************************************************************)
(* Strings whose content the code inspects are sequences of characters.    *)
(***************************************************************************)
S_connection == <<"c","o","n","n","e","c","t","i","o","n">>
S_timeout == <<"t","i","m","e","o","u","t">>
S_broken_pipe == <<"b","r","o","k","e","n"," ","p","i","p","e">>

\* str::contains
StrContains(s, p) ==
    \E i \in 1..(Len(s) - Len(p) + 1) : SubSeq(s, i, i + Len(p) - 1) = p

\* Display strings of publish errors the bus client may return.
\* "connection closed", "request timeout", "io: broken pipe", "timed out"
PublishErrors ==
    {S_connection \o <<" ","c","l","o","s","e","d">>,
     <<"r","e","q","u","e","s","t"," ">> \o S_timeout,
     <<"i","o",":"," ">> \o S_broken_pipe,
     <<"t","i","m","e","d"," ","o","u","t">>}

NoErr == <<>>


(***************************************************************************)
(* Payloads on the assign subject.  A payload is described by what the     *)
(* two decoders of the loop make of it: whether it is an envelope, the     *)
(* envelope's kind, and whether its data (or, for a non-envelope, the      *)
(* payload itself) is an assignment.                                       *)
(***************************************************************************)
Ids == 1..NumIds

\* job.payload.timeout_ms as a JSON value
JsonAbsent == [t |-> "absent", v |-> 0]
JsonU64(n) == [t |-> "u64", v |-> n]

\* ExecAssignment (the fields the pipeline reads)
Assignment(id, tmo) ==
    [valid |-> TRUE, assignment_id |-> id, request_id |-> 10 + id, timeout_ms |-> tmo]
BadData == [valid |-> FALSE, assignment_id |-> 0, request_id |-> 0, timeout_ms |-> JsonAbsent]

\* The assignment the producer sends under id i: even ids carry timeout_ms.
Job(i) == Assignment(i, IF i % 2 = 0 THEN JsonU64(PayloadTimeout) ELSE JsonAbsent)

Envelope(k, d) == [envelope |-> TRUE, kind |-> k, data |-> d]
Bare(d) == [envelope |-> FALSE, kind |-> "none", data |-> d]

Payloads ==
    {Envelope("exec_assign", Job(i)) : i \in Ids}
    \cup {Bare(Job(1)), Envelope("exec_assign", BadData), Envelope("heartbeat", BadData),
          Bare(BadData)}

NoMsg == [envelope |-> FALSE, kind |-> "stream_end", data |-> BadData]

\* a decoding that does not look at the envelope's kind
DecodeAnyKind(m) ==
    IF m.envelope
    THEN IF m.data.valid THEN "assignment" ELSE "DECODE_ERROR"
    ELSE IF m.data.valid THEN "assignment" ELSE "PARSE_ERROR"

\* The decoding of main.rs lines 166-220: what the loop does with a payload.
Decode(m) ==
    IF m.envelope
    THEN IF m.kind = "exec_assign"
         THEN IF m.data.valid THEN "assignment" ELSE "DECODE_ERROR"
         ELSE "unexpected_kind"
    ELSE IF m.data.valid THEN "assignment" ELSE "PARSE_ERROR"

(***************************************************************************)
(* Dedup (main.rs 453-480)                                                 *)
(***************************************************************************)
DedupNew(cap) == [set |-> {}, queue |-> <<>>, capacity |-> cap]

\* a contains that finds nothing
DedupContainsNever(d, key) == FALSE

DedupContains(d, key) == key \in d.set

\* an insert that, over capacity, drops the key it has just pushed
DedupInsertEvictNewest(d, key) ==
    IF key \in d.set \/ Len(d.queue) >= d.capacity
    THEN d
    ELSE [d EXCEPT !.set = @ \cup {key}, !.queue = Append(@, key)]

\* an insert that evicts on reaching the capacity, not on exceeding it
DedupInsertEvictEarly(d, key) ==
    IF key \in d.set
    THEN d
    ELSE LET q == Append(d.queue, key)
             s == d.set \cup {key}
         IN  IF Len(q) >= d.capacity
             THEN [d EXCEPT !.set = s \ {Head(q)}, !.queue = Tail(q)]
             ELSE [d EXCEPT !.set = s, !.queue = q]

DedupInsert(d, key) ==
    IF key \in d.set
    THEN d
    ELSE LET q == Append(d.queue, key)
             s == d.set \cup {key}
         IN  IF Len(q) > d.capacity
             THEN [d EXCEPT !.set = s \ {Head(q)}, !.queue = Tail(q)]
             ELSE [d EXCEPT !.set = s, !.queue = q]

(***************************************************************************)
(* tokio::sync::Semaphore: a counter of free permits and a FIFO queue of   *)
(* waiters, each with the permits it still needs.  A release serves the    *)
(* queue from its head and adds only what is left to the counter; an       *)
(* acquire that finds too few free permits takes them all and queues for   *)
(* the rest.                                                               *)
(***************************************************************************)
RECURSIVE AddPermits(_, _)
AddPermits(sem, n) ==
    IF n = 0 THEN sem
    ELSE IF sem.waiters = <<>>
         THEN [sem EXCEPT !.permits = @ + n]
         ELSE LET w == Head(sem.waiters)
                  k == IF n < w.need THEN n ELSE w.need
              IN  IF k = w.need
                  THEN AddPermits([sem EXCEPT !.waiters = Tail(@)], n - k)
                  ELSE AddPermits(
                         [sem EXCEPT !.waiters = <<[w EXCEPT !.need = @ - k]>> \o Tail(@)],
                         n - k)

\* try_acquire_owned that never reports NoPermits
TryAcquireAlways(sem) == TRUE

\* try_acquire_owned succeeds iff a permit is free
TryAcquireOk(sem) == sem.permits >= 1

\* acquire of n permits by `who`: immediate, or queued for the missing ones
Acquire(sem, who, n) ==
    IF sem.permits >= n
    THEN [sem EXCEPT !.permits = @ - n]
    ELSE [permits |-> 0,
          waiters |-> Append(sem.waiters, [who |-> who, need |-> n - sem.permits])]

Waiting(sem, who) == \E i \in DOMAIN sem.waiters : sem.waiters[i].who = who

\* an in-use count that is the number of free permits
InUseIsAvailable(sem) == sem.permits

\* max_concurrency.saturating_sub(available_permits())
InUse(sem) == IF cfg.max_concurrency >= sem.permits THEN cfg.max_concurrency - sem.permits ELSE 0

(***************************************************************************)
(* Results, dead-letters and tasks                                         *)
(***************************************************************************)
NoResult ==
    [status |-> "none", error_code |-> "none", error_message |-> "none",
     latency_ms |-> 0, assignment_id |-> 0, request_id |-> 0]

\* What a handler hands back to Executor::execute: (status, error_code, error_message)
HandlerReturns ==
    {[status |-> "success", error_code |-> "none", error_message |-> "none"],
     [status |-> "error", error_code |-> "UNKNOWN_JOB_TYPE",
      error_message |-> "Unknown job type"]}
NoReturn == [status |-> "none", error_code |-> "none", error_message |-> "none"]

\* Executor::execute (executor.rs 29-71): the handler's tuple with the ids echoed
ExecuteResult(a, h) ==
    [status |-> h.status, error_code |-> h.error_code, error_message |-> h.error_message,
     latency_ms |-> HandlerElapsed, assignment_id |-> a.assignment_id,
     request_id |-> a.request_id]

\* a fabricated result that reports the configured default as its latency
TimeoutResultDefaultLatency(a, timeout_ms) ==
    [status |-> "timeout", error_code |-> "TIMEOUT", error_message |-> "Task timed out",
     latency_ms |-> default_timeout_ms, assignment_id |-> a.assignment_id,
     request_id |-> a.request_id]

\* main.rs 284-299: the result fabricated when the deadline expires
TimeoutResult(a, timeout_ms) ==
    [status |-> "timeout", error_code |-> "TIMEOUT", error_message |-> "Task timed out",
     latency_ms |-> timeout_ms, assignment_id |-> a.assignment_id,
     request_id |-> a.request_id]

\* serde_json Value::as_u64
as_u64(j) == IF j.t = "u64" THEN j.v ELSE -1

\* main.rs 278-280
EffectiveTimeout(a) ==
    IF as_u64(a.timeout_ms) >= 0 THEN as_u64(a.timeout_ms) ELSE default_timeout_ms

\* a mapping that takes a handler error for a completed task
map_status_error_completed(st) ==
    CASE st = "success" -> "completed"
      [] st = "error" -> "completed"
      [] st = "timeout" -> "timeout"
      [] st = "cancelled" -> "cancelled"

\* protocol.rs map_status_to_task_state
map_status_to_task_state(st) ==
    CASE st = "success" -> "completed"
      [] st = "error" -> "failed"
      [] st = "timeout" -> "timeout"
      [] st = "cancelled" -> "cancelled"

\* error.rs 24-31: TRUE for WorkerError::Transient
classify_publish_error(e) ==
    StrContains(e, S_connection) \/ StrContains(e, S_timeout) \/ StrContains(e, S_broken_pipe)

\* a retry decision that does not look at the class of the error
ShouldRetryAnyError(e, attempt) == attempt < cfg.result_publish_max_retries

\* main.rs 335: the retry decision after a failed publish
ShouldRetry(e, attempt) ==
    classify_publish_error(e) /\ attempt < cfg.result_publish_max_retries

\* an increment that counts a dead-letter twice
DlqIncTwice(mx) == [mx EXCEPT !.dlq_published_total = @ + 2]

\* metrics.dlq_published_total.inc() (main.rs 210, 368)
DlqInc(mx) == [mx EXCEPT !.dlq_published_total = @ + 1]

\* A dead-letter call: by = 0 for the loop, the task's index for a task.
DeadLetter(reason, ref, by, ok) == [reason |-> reason, payload_ref |-> ref, by |-> by, ok |-> ok]

BagAdd(B, e) == B (+) SetToBag({e})

\* Number of calls in bag B that satisfy P
BagCount(B, P(_)) ==
    LET S == {e \in BagToSet(B) : P(e)}
    IN  BagCardinality([e \in S |-> B[e]])

NewTask(a) ==
    [assignment |-> a, pc |-> "exec", timeout_ms |-> 0, timed_out |-> FALSE,
     handler |-> NoReturn, result |-> NoResult, attempt |-> 0, last_err |-> NoErr,
     publish |-> "none", in_use |-> 0]

Alive == mainPc /= "exited"

(***************************************************************************)
(* The DLQ file (dlq.rs).  The directory holds the active file and the     *)
(* rotated segments, each [name, size, mtime]; a rotated segment is named  *)
(* by the second of its rotation, so names order as times do and a second  *)
(* rename within one second replaces the segment of that name.  An Option  *)
(* is a sequence of at most one element.                                   *)
(***************************************************************************)
NoFile == [exists |-> FALSE, size |-> 0, mtime |-> 0]

\* an empty DLQ directory under limits c
EmptyDir(c) ==
    [cfg |-> c, now |-> 0, active |-> NoFile, rotated |-> {}, writes |-> 0,
     last |-> [ok |-> TRUE, failed |-> "none", len |-> 0, removed |-> {}]]

DefaultDir ==
    EmptyDir([max_bytes |-> MaxDlqBytes, max_rotations |-> MaxDlqRotations,
              total_max_bytes |-> MaxDlqTotal, max_age_days |-> <<>>])

\* dlq.rs 36: rotated_files.sort_by(|a, b| a.0.cmp(&b.0))
RECURSIVE SortByName(_)
SortByName(files) ==
    IF files = {} THEN <<>>
    ELSE LET first == CHOOSE f \in files : \A g \in files : f.name <= g.name
         IN  <<first>> \o SortByName(files \ {first})

\* dlq.rs 37-52: retain the segments not older than max_age_days, the age
\* being now.signed_duration_since(file_dt).num_days() (dlq.rs 43)
RetainAge(files, max_age_days, now) ==
    IF max_age_days = <<>> THEN files
    ELSE SelectSeq(files, LAMBDA f : ~((now - f.mtime) \div DayLen > max_age_days[1]))

\* the count test of a loop that lets one segment too many stay
OverCountByTwo(n, max_rotations) == n > max_rotations + 1

\* dlq.rs 53: rotated_files.len() > max_rotations as usize
OverCount(n, max_rotations) == n > max_rotations

\* dlq.rs 53-60: remove the first segment while there are too many
RECURSIVE TrimCount(_, _)
TrimCount(files, max_rotations) ==
    IF OverCount(Len(files), max_rotations) /\ files /= <<>>
    THEN TrimCount(Tail(files), max_rotations)
    ELSE files

RECURSIVE TotalSize(_)
TotalSize(files) ==
    IF files = <<>> THEN 0 ELSE Head(files).size + TotalSize(Tail(files))

\* dlq.rs 61-70: remove the first segment while the segments' sizes sum to
\* more than total_max_bytes
RECURSIVE TrimTotal(_, _)
TrimTotal(files, total_max_bytes) ==
    IF TotalSize(files) > total_max_bytes /\ files /= <<>>
    THEN TrimTotal(Tail(files), total_max_bytes)
    ELSE files

Range(seq) == {seq[k] : k \in DOMAIN seq}

\* dlq.rs 20-72 past read_dir: the segments left of rotated, and the ones
\* removed with the loop that removed them
enforce_limits(rotated, c, now) ==
    LET sorted == SortByName(rotated)
        young == RetainAge(sorted, c.max_age_days, now)
        few == TrimCount(young, c.max_rotations)
        small == TrimTotal(few, c.total_max_bytes)
    IN  [kept |-> Range(small),
         removed |->
            {[name |-> f.name, by |-> "age"] : f \in rotated \ Range(young)}
            \cup {[name |-> f.name, by |-> "count"] : f \in Range(young) \ Range(few)}
            \cup {[name |-> f.name, by |-> "total"] : f \in Range(few) \ Range(small)}]

\* dlq.rs 8-9: the active file exists and has reached max_bytes
NeedsRotation(d) == d.active.exists /\ d.active.size >= d.cfg.max_bytes

\* dlq.rs 10-12: the active file renamed to path.<now>
Renamed(d) ==
    {f \in d.rotated : f.name /= d.now}
    \cup {[name |-> d.now, size |-> d.active.size, mtime |-> d.active.mtime]}

\* dlq.rs 79-82: the line appended to the active file, created if absent
Appended(active, len, now) ==
    [exists |-> TRUE, size |-> active.size + len, mtime |-> now]

\* dlq.rs 74-84: the directory after write_deadletter_to_file of a line of
\* len bytes, when the call named by fault fails ("none": no call fails)
write_deadletter_to_file(d, len, fault) ==
    LET result(ok, failed, removed) ==
            [ok |-> ok, failed |-> failed, len |-> len, removed |-> removed]
        called == [d EXCEPT !.writes = @ + 1]
    IN  IF NeedsRotation(d)
        THEN IF fault = "rename"
             THEN [called EXCEPT !.last = result(FALSE, "rename", {})]
             ELSE IF fault = "read_dir"
             THEN [called EXCEPT !.rotated = Renamed(d), !.active = NoFile,
                                 !.last = result(FALSE, "read_dir", {})]
             ELSE LET lim == enforce_limits(Renamed(d), d.cfg, d.now)
                  IN  IF fault = "open"
                      THEN [called EXCEPT !.rotated = lim.kept, !.active = NoFile,
                                          !.last = result(FALSE, "open", lim.removed)]
                      ELSE [called EXCEPT !.rotated = lim.kept,
                                          !.active = Appended(NoFile, len, d.now),
                                          !.last = result(TRUE, "none", lim.removed)]
        ELSE IF fault = "open"
             THEN [called EXCEPT !.last = result(FALSE, "open", {})]
             ELSE [called EXCEPT !.active = Appended(d.active, len, d.now),
                                 !.last = result(TRUE, "none", {})]

\* no call of a pure function is being followed
NoCall == [op |-> "none"]

\* The state in which the supervisor is at pc, with the flags, the subscription
\* and the dedup window as given, and nothing processed yet.
Start(ready, pc, sub, subs, window, dir, fn) ==
    /\ cfg \in [max_concurrency : 1..MaxConcurrency,
                result_publish_max_retries : 0..MaxRetries]
    /\ readiness = ready
    /\ shutdown = FALSE
    /\ shutdown_rx = "empty"
    /\ subscription = sub
    /\ semaphore = [permits |-> cfg.max_concurrency, waiters |-> <<>>]
    /\ dedup = window
    /\ mainPc = pc
    /\ loopPc = "select"
    /\ msg = [n |-> 0, payload |-> NoMsg, log |-> "none"]
    /\ tasks = <<>>
    /\ resultBus = EmptyBag
    /\ dlqBus = EmptyBag
    /\ dlqFile = EmptyBag
    /\ hbLog = <<>>
    /\ metrics = [subs_active |-> subs, task_received |-> 0, task_completed |-> 0,
                  task_failed |-> 0, task_timeout |-> 0, tasks_in_progress |-> 0,
                  dlq_published_total |-> 0, task_duration_count |-> 0]
    /\ env = 0
    /\ health = [pc |-> "idle", draining |-> FALSE, answers |-> <<>>]
    /\ inserted = <<>>
    /\ disk = dir
    /\ stamps = [now |-> 0, loop |-> <<>>, main |-> <<>>]
    /\ call = fn
    /\ taskLog = <<>>

\* main.rs 97-153: subscribed, ready, the loops about to run
Init == Start(TRUE, "running", "active", 1, DedupNew(capacity), DefaultDir, NoCall)

\* An I/O call may fail, and a message arrive, only while the run's budget of
\* environment events lasts.
NFaults(a_ok, b_ok) == (IF a_ok THEN 0 ELSE 1) + (IF b_ok THEN 0 ELSE 1)
Fault(ok) == env + NFaults(ok, TRUE)
MayFail(ok) == env + NFaults(ok, TRUE) <= MaxEvents

(***************************************************************************)
(* The pipeline loop (main.rs 153-414).  One action is one stretch of the  *)
(* loop between two suspensions: from the select! that wakes it to the     *)
(* next await that parks it.  select! polls its ready branches in random   *)
(* order, so a message may be taken while the shutdown broadcast waits.    *)
(***************************************************************************)
AtSelect == Alive /\ loopPc = "select"
\* a loop that goes on reading while it waits for a permit
CanReadWhileWaiting ==
    Alive /\ loopPc \in {"select", "acquire"} /\ subscription = "active" /\ env < MaxEvents

CanRead == AtSelect /\ subscription = "active" /\ env < MaxEvents

\* the n-th read yields m; log is the line the loop writes about it, if any
Read(m, log) == [n |-> msg.n + 1, payload |-> m, log |-> log]

SubjectLenRef == [k |-> "subject_len", id |-> 0]
AssignmentRef(id) == [k |-> "assignment", id |-> id]

\* main.rs 156-160: the shutdown branch of select!
LoopShutdown ==
    /\ AtSelect
    /\ shutdown_rx = "sent"
    /\ shutdown_rx' = "received"
    /\ subscription' = "unsubscribed"
    /\ loopPc' = "exited"
    /\ UNCHANGED <<taskLog, call, stamps, disk, inserted, health, cfg, readiness, shutdown, semaphore, dedup, mainPc, msg, tasks,
                   resultBus, dlqBus, dlqFile, hbLog, metrics, env>>

\* a loop that gives up when the dead-letter could not be written to the file
AfterDeadLetterPropagate(file_ok) == IF file_ok THEN "select" ELSE "exited"

\* main.rs 179-186, 209-216: `let _ =` discards the Result of
\* write_deadletter_to_file and of the publish, and `continue` takes the loop
\* back to its select!
AfterDeadLetter(file_ok) == "select"

\* main.rs 172-186: an exec_assign envelope whose data is no assignment
LoopDecodeError(m, file_ok, pub_ok) ==
    /\ CanRead
    /\ Decode(m) = "DECODE_ERROR"
    /\ env + 1 + NFaults(file_ok, pub_ok) <= MaxEvents
    /\ msg' = Read(m, "Failed to decode envelope data")
    /\ dlqFile' = BagAdd(dlqFile, DeadLetter("DECODE_ERROR", SubjectLenRef, 0, file_ok))
    /\ dlqBus' = BagAdd(dlqBus, DeadLetter("DECODE_ERROR", SubjectLenRef, 0, pub_ok))
    /\ env' = env + 1 + NFaults(file_ok, pub_ok)
    /\ loopPc' = AfterDeadLetter(file_ok)
    /\ UNCHANGED <<taskLog, call, stamps, disk, inserted, health, cfg, readiness, shutdown, shutdown_rx, subscription, semaphore, dedup,
                   mainPc, tasks, resultBus, hbLog, metrics>>

\* main.rs 195-218: neither an envelope nor a bare assignment
LoopParseError(m, file_ok, pub_ok) ==
    /\ CanRead
    /\ Decode(m) = "PARSE_ERROR"
    /\ env + 1 + NFaults(file_ok, pub_ok) <= MaxEvents
    /\ msg' = Read(m, "Failed to parse assignment")
    /\ dlqFile' = BagAdd(dlqFile, DeadLetter("PARSE_ERROR", SubjectLenRef, 0, file_ok))
    /\ metrics' = DlqInc(metrics)
    /\ dlqBus' = BagAdd(dlqBus, DeadLetter("PARSE_ERROR", SubjectLenRef, 0, pub_ok))
    /\ env' = env + 1 + NFaults(file_ok, pub_ok)
    /\ loopPc' = AfterDeadLetter(file_ok)
    /\ UNCHANGED <<taskLog, call, stamps, disk, inserted, health, cfg, readiness, shutdown, shutdown_rx, subscription, semaphore, dedup,
                   mainPc, tasks, resultBus, hbLog>>

\* main.rs 189-192: an envelope of another kind
LoopUnexpectedKind(m) ==
    /\ CanRead
    /\ Decode(m) = "unexpected_kind"
    /\ msg' = Read(m, "Unexpected envelope kind")
    /\ env' = env + 1
    /\ UNCHANGED <<taskLog, call, stamps, disk, inserted, health, cfg, readiness, shutdown, shutdown_rx, subscription, semaphore, dedup,
                   mainPc, loopPc, tasks, resultBus, dlqBus, dlqFile, hbLog, metrics>>

\* main.rs 222-227: the id is in the dedup window
LoopDuplicate(m) ==
    /\ CanRead
    /\ Decode(m) = "assignment"
    /\ DedupContains(dedup, m.data.assignment_id)
    /\ msg' = Read(m, "Duplicate assignment detected, skipping")
    /\ env' = env + 1
    /\ UNCHANGED <<taskLog, call, stamps, disk, inserted, health, cfg, readiness, shutdown, shutdown_rx, subscription, semaphore, dedup,
                   mainPc, loopPc, tasks, resultBus, dlqBus, dlqFile, hbLog, metrics>>

\* main.rs 390-397: what follows the if-let, whether or not a message was
\* read: leave on shutdown, else clear subs_active and pause for a second.
\* mx is the registry as the iteration has left it.
AfterMessage(mx) ==
    IF shutdown
    THEN /\ loopPc' = "exited"
         /\ subscription' = "unsubscribed"
         /\ metrics' = mx
    ELSE /\ loopPc' = "sleep"
         /\ metrics' = [mx EXCEPT !.subs_active = 0]
         /\ UNCHANGED subscription

\* main.rs 250-276: gauge, counter and tokio::spawn with the permit taken from
\* sem, then the rest of the iteration.
Spawn(a, sem) ==
    /\ tasks' = Append(tasks, NewTask(a))
    /\ AfterMessage([metrics EXCEPT !.tasks_in_progress = InUse(sem),
                                    !.task_received = @ + 1])

\* main.rs 228-276 and 390-397 with try_acquire_owned succeeding
LoopAccept(m) ==
    /\ CanRead
    /\ Decode(m) = "assignment"
    /\ ~DedupContains(dedup, m.data.assignment_id)
    /\ TryAcquireOk(semaphore)
    /\ msg' = Read(m, "Processing assignment")
    /\ dedup' = DedupInsert(dedup, m.data.assignment_id)
    /\ semaphore' = Acquire(semaphore, "loop", 1)
    /\ Spawn(m.data, semaphore')
    /\ env' = env + 1
    /\ taskLog' = Append(taskLog, [assignment_id |-> m.data.assignment_id,
                                    states |-> <<"queued", "running">>])
    /\ UNCHANGED <<call, stamps, disk, inserted, health, cfg, readiness, shutdown, shutdown_rx, mainPc, resultBus, dlqBus,
                   dlqFile, hbLog>>

\* a loop that logs the running state before it has its permit
LoopBackpressureRunning(m) ==
    /\ CanRead
    /\ Decode(m) = "assignment"
    /\ ~DedupContains(dedup, m.data.assignment_id)
    /\ ~TryAcquireOk(semaphore)
    /\ msg' = Read(m, "Backpressure: concurrency limit reached")
    /\ dedup' = DedupInsert(dedup, m.data.assignment_id)
    /\ semaphore' = Acquire(semaphore, "loop", 1)
    /\ loopPc' = "acquire"
    /\ env' = env + 1
    /\ taskLog' = Append(taskLog, [assignment_id |-> m.data.assignment_id,
                                    states |-> <<"queued", "running">>])
    /\ UNCHANGED <<call, stamps, disk, inserted, health, cfg, readiness, shutdown, shutdown_rx, subscription, mainPc, tasks,
                   resultBus, dlqBus, dlqFile, hbLog, metrics>>

\* main.rs 228-246 with try_acquire_owned failing: the loop queues for a permit
LoopBackpressure(m) ==
    /\ CanRead
    /\ Decode(m) = "assignment"
    /\ ~DedupContains(dedup, m.data.assignment_id)
    /\ ~TryAcquireOk(semaphore)
    /\ msg' = Read(m, "Backpressure: concurrency limit reached")
    /\ dedup' = DedupInsert(dedup, m.data.assignment_id)
    /\ semaphore' = Acquire(semaphore, "loop", 1)
    /\ loopPc' = "acquire"
    /\ env' = env + 1
    /\ taskLog' = Append(taskLog, [assignment_id |-> m.data.assignment_id,
                                    states |-> <<"queued">>])
    /\ UNCHANGED <<call, stamps, disk, inserted, health, cfg, readiness, shutdown, shutdown_rx, subscription, mainPc, tasks,
                   resultBus, dlqBus, dlqFile, hbLog, metrics>>

\* main.rs 246-276 and 390-397: acquire_owned returns
LoopAcquired ==
    /\ Alive
    /\ loopPc = "acquire"
    /\ ~Waiting(semaphore, "loop")
    /\ Spawn(msg.payload.data, semaphore)
    /\ taskLog' = [taskLog EXCEPT ![Len(taskLog)].states = Append(@, "running")]
    /\ UNCHANGED <<call, stamps, disk, inserted, health, cfg, readiness, shutdown, shutdown_rx, semaphore, dedup, mainPc, msg,
                   resultBus, dlqBus, dlqFile, hbLog, env>>

\* main.rs 161-164 and 390-397: next() yields None
LoopStreamEnd ==
    /\ AtSelect
    /\ subscription = "ended"
    /\ msg' = Read(NoMsg, "none")
    /\ AfterMessage(metrics)
    /\ UNCHANGED <<taskLog, call, stamps, disk, inserted, health, cfg, readiness, shutdown, shutdown_rx, semaphore, dedup, mainPc, tasks,
                   resultBus, dlqBus, dlqFile, hbLog, env>>

\* main.rs 397-403: the pause ends; leave on shutdown, else call subscribe
LoopWake ==
    /\ Alive
    /\ loopPc = "sleep"
    /\ IF shutdown
       THEN loopPc' = "exited" /\ subscription' = "unsubscribed"
       ELSE loopPc' = "resub" /\ UNCHANGED subscription
    /\ UNCHANGED <<taskLog, call, stamps, disk, inserted, health, cfg, readiness, shutdown, shutdown_rx, semaphore, dedup, mainPc, msg,
                   tasks, resultBus, dlqBus, dlqFile, hbLog, metrics, env>>

\* a loop that leaves when subscribe fails
LoopResubscribeGiveUp(ok) ==
    /\ Alive
    /\ loopPc = "resub"
    /\ MayFail(ok)
    /\ IF ok
       THEN subscription' = "active" /\ metrics' = [metrics EXCEPT !.subs_active = 1]
       ELSE UNCHANGED <<subscription, metrics>>
    /\ env' = Fault(ok)
    /\ loopPc' = IF ok THEN "select" ELSE "exited"
    /\ UNCHANGED <<taskLog, call, stamps, disk, inserted, health, cfg, readiness, shutdown, shutdown_rx, semaphore, dedup, mainPc, msg,
                   tasks, resultBus, dlqBus, dlqFile, hbLog>>

\* main.rs 403-412: subscribe returns
LoopResubscribe(ok) ==
    /\ Alive
    /\ loopPc = "resub"
    /\ MayFail(ok)
    /\ IF ok
       THEN subscription' = "active" /\ metrics' = [metrics EXCEPT !.subs_active = 1]
       ELSE UNCHANGED <<subscription, metrics>>
    /\ env' = Fault(ok)
    /\ loopPc' = "select"
    /\ UNCHANGED <<taskLog, call, stamps, disk, inserted, health, cfg, readiness, shutdown, shutdown_rx, semaphore, dedup, mainPc, msg,
                   tasks, resultBus, dlqBus, dlqFile, hbLog>>

\* The bus ends the subscription stream.  The loop alone reads the stream, and
\* only at its select!, so the end is placed where the loop can next see it.
StreamEnds ==
    /\ AtSelect
    /\ subscription = "active"
    /\ env < MaxEvents
    /\ subscription' = "ended"
    /\ env' = env + 1
    /\ UNCHANGED <<taskLog, call, stamps, disk, inserted, health, cfg, readiness, shutdown, shutdown_rx, semaphore, dedup, mainPc, loopPc,
                   msg, tasks, resultBus, dlqBus, dlqFile, hbLog, metrics>>

(***************************************************************************)
(* A spawned task (main.rs 276-387)                                        *)
(***************************************************************************)
TaskAt(i, pc) == Alive /\ i \in DOMAIN tasks /\ tasks[i].pc = pc

\* a count that takes a failed task for a completed one as well
CountTerminalBoth(mx, status) ==
    LET st == map_status_to_task_state(status)
        m1 == CASE st = "completed" -> [mx EXCEPT !.task_completed = @ + 1]
                [] st = "failed" -> [mx EXCEPT !.task_failed = @ + 1,
                                               !.task_completed = @ + 1]
                [] st = "timeout" -> [mx EXCEPT !.task_timeout = @ + 1]
                [] OTHER -> mx
    IN  [m1 EXCEPT !.task_duration_count = @ + 2]

\* main.rs 308-315: the terminal counter and the histogram
CountTerminal(mx, status) ==
    LET st == map_status_to_task_state(status)
        m1 == CASE st = "completed" -> [mx EXCEPT !.task_completed = @ + 1]
                [] st = "failed" -> [mx EXCEPT !.task_failed = @ + 1]
                [] st = "timeout" -> [mx EXCEPT !.task_timeout = @ + 1]
                [] OTHER -> mx
    IN  [m1 EXCEPT !.task_duration_count = @ + 2]

\* main.rs 282-300: the handler's result, or the fabricated one
Outcome(a, timeout_ms, timed_out, h) ==
    IF timed_out THEN TimeoutResult(a, timeout_ms) ELSE ExecuteResult(a, h)

\* main.rs 278-320: execute under the deadline, count, serialize.  to_vec of
\* an ExecResult (strings and integers) cannot fail, so 376-383 is never taken.
TaskExecute(i, timed_out, h) ==
    /\ TaskAt(i, "exec")
    /\ LET t == tasks[i]
           timeout_ms == EffectiveTimeout(t.assignment)
           result == Outcome(t.assignment, timeout_ms, timed_out, h)
       IN  /\ tasks' = [tasks EXCEPT ![i] =
                          [t EXCEPT !.timeout_ms = timeout_ms, !.timed_out = timed_out,
                                    !.handler = h, !.result = result,
                                    !.pc = "publish"]]
           /\ metrics' = CountTerminal(metrics, result.status)
           /\ taskLog' = [taskLog EXCEPT ![i].states =
                                       Append(@, map_status_to_task_state(result.status))]
    /\ UNCHANGED <<call, stamps, disk, inserted, health, cfg, readiness, shutdown, shutdown_rx, subscription, semaphore, dedup,
                   mainPc, loopPc, msg, resultBus, dlqBus, dlqFile, hbLog, env>>

PublishCall(i, r, ok) == [result |-> r, by |-> i, ok |-> ok]

\* main.rs 323-332: the publish succeeds
TaskPublishOk(i) ==
    /\ TaskAt(i, "publish")
    /\ resultBus' = BagAdd(resultBus, PublishCall(i, tasks[i].result, TRUE))
    /\ tasks' = [tasks EXCEPT ![i].pc = "release", ![i].publish = "ok"]
    /\ UNCHANGED <<taskLog, call, stamps, disk, inserted, health, cfg, readiness, shutdown, shutdown_rx, subscription, semaphore, dedup,
                   mainPc, loopPc, msg, dlqBus, dlqFile, hbLog, metrics, env>>

\* main.rs 333-348: the publish fails with e and is tried again after the pause
TaskPublishRetry(i, e) ==
    /\ TaskAt(i, "publish")
    /\ env < MaxEvents
    /\ ShouldRetry(e, tasks[i].attempt)
    /\ resultBus' = BagAdd(resultBus, PublishCall(i, tasks[i].result, FALSE))
    /\ tasks' = [tasks EXCEPT ![i].attempt = @ + 1, ![i].last_err = e]
    /\ env' = env + 1
    /\ UNCHANGED <<taskLog, call, stamps, disk, inserted, health, cfg, readiness, shutdown, shutdown_rx, subscription, semaphore, dedup,
                   mainPc, loopPc, msg, dlqBus, dlqFile, hbLog, metrics>>

\* main.rs 333-335 and 349-370: the publish fails with e for good; the
\* PUBLISH_ERROR dead-letter is written and published
TaskPublishFail(i, e, file_ok, pub_ok) ==
    /\ TaskAt(i, "publish")
    /\ env + 1 + NFaults(file_ok, pub_ok) <= MaxEvents
    /\ ~ShouldRetry(e, tasks[i].attempt)
    /\ resultBus' = BagAdd(resultBus, PublishCall(i, tasks[i].result, FALSE))
    /\ LET ref == AssignmentRef(tasks[i].result.assignment_id)
       IN  /\ dlqFile' = BagAdd(dlqFile, DeadLetter("PUBLISH_ERROR", ref, i, file_ok))
           /\ dlqBus' = BagAdd(dlqBus, DeadLetter("PUBLISH_ERROR", ref, i, pub_ok))
    /\ metrics' = DlqInc(metrics)
    /\ tasks' = [tasks EXCEPT ![i].pc = "release", ![i].last_err = e,
                              ![i].publish = "failed"]
    /\ env' = env + 1 + NFaults(file_ok, pub_ok)
    /\ UNCHANGED <<taskLog, call, stamps, disk, inserted, health, cfg, readiness, shutdown, shutdown_rx, subscription, semaphore, dedup,
                   mainPc, loopPc, msg, hbLog>>

\* a release that adds to the counter and wakes nobody
ReleasePermitNoWake(sem) == [sem EXCEPT !.permits = @ + 1]

\* a permit given back twice
ReleasePermitTwice(sem) == AddPermits(sem, 2)

\* drop(permit)
ReleasePermit(sem) == AddPermits(sem, 1)

\* main.rs 384-386: drop the permit, refresh the gauge
TaskRelease(i) ==
    /\ TaskAt(i, "release")
    /\ semaphore' = ReleasePermit(semaphore)
    /\ metrics' = [metrics EXCEPT !.tasks_in_progress = InUse(semaphore')]
    /\ tasks' = [tasks EXCEPT ![i].pc = "done", ![i].last_err = NoErr]
    /\ UNCHANGED <<taskLog, call, stamps, disk, inserted, health, cfg, readiness, shutdown, shutdown_rx, subscription, dedup, mainPc,
                   loopPc, msg, resultBus, dlqBus, dlqFile, hbLog, env>>

(***************************************************************************)
(* The supervisor after boot (main.rs 417-450)                             *)
(***************************************************************************)
Heartbeat(status, in_use) == [status |-> status, in_use |-> in_use]

\* main.rs 417-436: ctrl_c returns; flags, broadcast, gauge, draining heartbeat
MainSigint ==
    /\ mainPc = "running"
    /\ readiness' = FALSE
    /\ shutdown' = TRUE
    /\ shutdown_rx' = IF loopPc = "exited" THEN shutdown_rx ELSE "sent"
    /\ metrics' = [metrics EXCEPT !.subs_active = 0]
    /\ hbLog' = Append(hbLog, Heartbeat("draining", InUse(semaphore)))
    /\ mainPc' = "acquire_all"
    /\ UNCHANGED <<taskLog, call, stamps, disk, inserted, health, cfg, subscription, semaphore, dedup, loopPc, msg, tasks, resultBus,
                   dlqBus, dlqFile, env>>

\* main.rs 437: acquire_many_owned is called
MainAcquireAll ==
    /\ mainPc = "acquire_all"
    /\ semaphore' = Acquire(semaphore, "main", cfg.max_concurrency)
    /\ mainPc' = "acquired"
    /\ UNCHANGED <<taskLog, call, stamps, disk, inserted, health, cfg, readiness, shutdown, shutdown_rx, subscription, dedup, loopPc, msg,
                   tasks, resultBus, dlqBus, dlqFile, hbLog, metrics, env>>

\* What becomes of the permit acquire_many_owned returned: `let _ =` drops it.
DrainPermit(sem) == AddPermits(sem, cfg.max_concurrency)

\* main.rs 437: acquire_many_owned returns, and the statement ends
MainAcquired ==
    /\ mainPc = "acquired"
    /\ ~Waiting(semaphore, "main")
    /\ semaphore' = DrainPermit(semaphore)
    /\ mainPc' = "stopped"
    /\ UNCHANGED <<taskLog, call, stamps, disk, inserted, health, cfg, readiness, shutdown, shutdown_rx, subscription, dedup, loopPc, msg,
                   tasks, resultBus, dlqBus, dlqFile, hbLog, metrics, env>>

\* main.rs 438-447: the stopped heartbeat
MainStopped ==
    /\ mainPc = "stopped"
    /\ hbLog' = Append(hbLog, Heartbeat("stopped", 0))
    /\ mainPc' = "exit"
    /\ UNCHANGED <<taskLog, call, stamps, disk, inserted, health, cfg, readiness, shutdown, shutdown_rx, subscription, semaphore, dedup,
                   loopPc, msg, tasks, resultBus, dlqBus, dlqFile, metrics, env>>

\* main.rs 448-451: main returns; the runtime drops every other task
MainExit ==
    /\ mainPc = "exit"
    /\ mainPc' = "exited"
    /\ UNCHANGED <<taskLog, call, stamps, disk, inserted, health, cfg, readiness, shutdown, shutdown_rx, subscription, semaphore, dedup,
                   loopPc, msg, tasks, resultBus, dlqBus, dlqFile, hbLog, metrics, env>>

\* The loop's steps other than the shutdown branch of its select!
Pipeline ==
    \/ \E m \in Payloads, file_ok \in BOOLEAN, pub_ok \in BOOLEAN :
          LoopDecodeError(m, file_ok, pub_ok)
    \/ \E m \in Payloads, file_ok \in BOOLEAN, pub_ok \in BOOLEAN :
          LoopParseError(m, file_ok, pub_ok)
    \/ \E m \in Payloads : LoopUnexpectedKind(m)
    \/ \E m \in Payloads : LoopDuplicate(m)
    \/ \E m \in Payloads : LoopAccept(m)
    \/ \E m \in Payloads : LoopBackpressure(m)
    \/ LoopAcquired
    \/ LoopStreamEnd
    \/ LoopWake
    \/ \E ok \in BOOLEAN : LoopResubscribe(ok)

Loop == LoopShutdown \/ Pipeline

Task ==
    \E i \in 1..MaxEvents :
        \/ \E h \in HandlerReturns : TaskExecute(i, FALSE, h)
        \/ TaskExecute(i, TRUE, NoReturn)
        \/ TaskPublishOk(i)
        \/ \E e \in PublishErrors : TaskPublishRetry(i, e)
        \/ \E e \in PublishErrors, file_ok \in BOOLEAN, pub_ok \in BOOLEAN :
              TaskPublishFail(i, e, file_ok, pub_ok)
        \/ TaskRelease(i)

\* main.rs 437-451: the supervisor's steps once the signal is handled
Drain ==
    \/ MainAcquireAll
    \/ MainAcquired
    \/ MainStopped
    \/ MainExit

Main == MainSigint \/ Drain

Next == Loop \/ Task \/ Main \/ StreamEnds

Spec == Init /\ [][Next]_vars




(***************************************************************************)
(* The periodic heartbeat loop (main.rs 124-150), spawned before the       *)
(* pipeline loop and never told of the shutdown.                           *)
(***************************************************************************)
\* main.rs 130-146: the interval ticks; the permits are counted and the
\* heartbeat is published
HeartbeatTick ==
    /\ Alive
    /\ env < MaxEvents
    /\ LET in_use == InUse(semaphore)
           status == IF in_use > 0 THEN "busy" ELSE "idle"
       IN  hbLog' = Append(hbLog, Heartbeat(status, in_use))
    /\ env' = env + 1
    /\ UNCHANGED <<taskLog, call, stamps, disk, inserted, health, cfg, readiness, shutdown, shutdown_rx, subscription, semaphore, dedup,
                   mainPc, loopPc, msg, tasks, resultBus, dlqBus, dlqFile, metrics>>

HeartbeatSpec == Init /\ [][Next \/ HeartbeatTick]_vars


(***************************************************************************)
(* The heartbeat producers step by step: the periodic loop (main.rs        *)
(* 130-147) and the supervisor (main.rs 424-447) each read Utc::now() into *)
(* the heartbeat and then hand its envelope to publish of the one client   *)
(* they share, which sends in the order of the calls.  The runtime is      *)
(* multi-threaded (#[tokio::main]), so the two run in parallel.  The clock *)
(* is taken to never go back.                                              *)
(***************************************************************************)
\* WorkerHeartbeat with its timestamp
Stamped(h, ts) == [status |-> h.status, in_use |-> h.in_use, timestamp |-> ts]

\* Utc::now() moves on
ClockAdvance ==
    /\ stamps.now < MaxClock
    /\ stamps' = [stamps EXCEPT !.now = @ + 1]
    /\ UNCHANGED <<taskLog, call, disk, inserted, health, cfg, readiness, shutdown, shutdown_rx, subscription,
                   semaphore, dedup, mainPc, loopPc, msg, tasks, resultBus, dlqBus,
                   dlqFile, hbLog, metrics, env>>

\* main.rs 131-143: the interval ticks; the heartbeat is built and stamped
HbLoopStamp ==
    /\ Alive
    /\ stamps.loop = <<>>
    /\ env < MaxEvents
    /\ stamps' = [stamps EXCEPT !.loop =
                    <<Stamped(Heartbeat(IF InUse(semaphore) > 0 THEN "busy" ELSE "idle",
                                        InUse(semaphore)), stamps.now)>>]
    /\ env' = env + 1
    /\ UNCHANGED <<taskLog, call, disk, inserted, health, cfg, readiness, shutdown, shutdown_rx, subscription,
                   semaphore, dedup, mainPc, loopPc, msg, tasks, resultBus, dlqBus,
                   dlqFile, hbLog, metrics>>

\* main.rs 144: publish of the stamped heartbeat
HbLoopPublish ==
    /\ Alive
    /\ stamps.loop /= <<>>
    /\ hbLog' = Append(hbLog, stamps.loop[1])
    /\ stamps' = [stamps EXCEPT !.loop = <<>>]
    /\ UNCHANGED <<taskLog, call, disk, inserted, health, cfg, readiness, shutdown, shutdown_rx, subscription,
                   semaphore, dedup, mainPc, loopPc, msg, tasks, resultBus, dlqBus,
                   dlqFile, metrics, env>>

\* main.rs 417-434: ctrl_c returns; flags, broadcast, gauge; the draining
\* heartbeat is built and stamped
SupStampDraining ==
    /\ mainPc = "running"
    /\ readiness' = FALSE
    /\ shutdown' = TRUE
    /\ shutdown_rx' = IF loopPc = "exited" THEN shutdown_rx ELSE "sent"
    /\ metrics' = [metrics EXCEPT !.subs_active = 0]
    /\ stamps' = [stamps EXCEPT !.main =
                    <<Stamped(Heartbeat("draining", InUse(semaphore)), stamps.now)>>]
    /\ mainPc' = "publish_draining"
    /\ UNCHANGED <<taskLog, call, disk, inserted, health, cfg, subscription, semaphore, dedup, loopPc, msg,
                   tasks, resultBus, dlqBus, dlqFile, hbLog, env>>

\* main.rs 435 and 446: publish of the supervisor's stamped heartbeat
SupPublish(pc, then) ==
    /\ mainPc = pc
    /\ hbLog' = Append(hbLog, stamps.main[1])
    /\ stamps' = [stamps EXCEPT !.main = <<>>]
    /\ mainPc' = then
    /\ UNCHANGED <<taskLog, call, disk, inserted, health, cfg, readiness, shutdown, shutdown_rx, subscription,
                   semaphore, dedup, loopPc, msg, tasks, resultBus, dlqBus, dlqFile,
                   metrics, env>>

\* main.rs 438-445: the stopped heartbeat is built and stamped
SupStampStopped ==
    /\ mainPc = "stopped"
    /\ stamps' = [stamps EXCEPT !.main = <<Stamped(Heartbeat("stopped", 0), stamps.now)>>]
    /\ mainPc' = "publish_stopped"
    /\ UNCHANGED <<taskLog, call, disk, inserted, health, cfg, readiness, shutdown, shutdown_rx, subscription,
                   semaphore, dedup, loopPc, msg, tasks, resultBus, dlqBus, dlqFile,
                   hbLog, metrics, env>>

StampSpec ==
    Init /\ [][ClockAdvance
               \/ HbLoopStamp
               \/ HbLoopPublish
               \/ SupStampDraining
               \/ SupPublish("publish_draining", "acquire_all")
               \/ MainAcquireAll
               \/ MainAcquired
               \/ SupStampStopped
               \/ SupPublish("publish_stopped", "exit")
               \/ MainExit]_vars

(***************************************************************************)
(* The readiness flags from process start: the health server, the boot of  *)
(* the supervisor (main.rs 38-98) and its handling of the signal, store by *)
(* store.  The flags are written by the supervisor alone, so the loop and  *)
(* the tasks are left out of these runs.                                   *)
(***************************************************************************)
BootInit == Start(FALSE, "connect", "none", 0, DedupNew(capacity), DefaultDir, NoCall)

\* main.rs 63-84: one attempt to connect to the bus
BootConnect(ok) ==
    /\ mainPc = "connect"
    /\ MayFail(ok)
    /\ IF ok
       THEN mainPc' = "subscribe" /\ UNCHANGED readiness
       ELSE readiness' = FALSE /\ UNCHANGED mainPc
    /\ env' = Fault(ok)
    /\ UNCHANGED <<taskLog, call, stamps, disk, inserted, health, cfg, shutdown, shutdown_rx, subscription, semaphore, dedup, loopPc,
                   msg, tasks, resultBus, dlqBus, dlqFile, hbLog, metrics>>

\* main.rs 89-98: the first subscribe; its failure ends the process
BootSubscribe(ok) ==
    /\ mainPc = "subscribe"
    /\ MayFail(ok)
    /\ IF ok
       THEN /\ subscription' = "active"
            /\ readiness' = TRUE
            /\ metrics' = [metrics EXCEPT !.subs_active = 1]
            /\ mainPc' = "running"
       ELSE /\ mainPc' = "exited"
            /\ UNCHANGED <<subscription, readiness, metrics>>
    /\ env' = Fault(ok)
    /\ UNCHANGED <<taskLog, call, stamps, disk, inserted, health, cfg, shutdown, shutdown_rx, semaphore, dedup, loopPc, msg, tasks,
                   resultBus, dlqBus, dlqFile, hbLog>>

\* main.rs 417-418: ctrl_c returns; readiness.store(false)
SigintReadiness ==
    /\ mainPc = "running"
    /\ readiness' = FALSE
    /\ mainPc' = "signalled"
    /\ UNCHANGED <<taskLog, call, stamps, disk, inserted, health, cfg, shutdown, shutdown_rx, subscription, semaphore, dedup, loopPc,
                   msg, tasks, resultBus, dlqBus, dlqFile, hbLog, metrics, env>>

\* main.rs 419-436: shutdown.store(true), broadcast, gauge, draining heartbeat
SigintDraining ==
    /\ mainPc = "signalled"
    /\ shutdown' = TRUE
    /\ shutdown_rx' = IF loopPc = "exited" THEN shutdown_rx ELSE "sent"
    /\ metrics' = [metrics EXCEPT !.subs_active = 0]
    /\ hbLog' = Append(hbLog, Heartbeat("draining", InUse(semaphore)))
    /\ mainPc' = "acquire_all"
    /\ UNCHANGED <<taskLog, call, stamps, disk, inserted, health, cfg, readiness, subscription, semaphore, dedup, loopPc, msg, tasks,
                   resultBus, dlqBus, dlqFile, env>>

\* an answer that does not look at the draining flag
ReadyResponseNoDraining(draining, ready) ==
    IF ready THEN [code |-> 200, body |-> "READY"]
    ELSE [code |-> 503, body |-> "NOT_READY"]

\* health.rs 38-44: the answer for the two flags as loaded
ReadyResponse(draining, ready) ==
    IF draining THEN [code |-> 503, body |-> "DRAINING"]
    ELSE IF ready THEN [code |-> 200, body |-> "READY"]
    ELSE [code |-> 503, body |-> "NOT_READY"]

\* health.rs 37: a request arrives; state.draining.load
ReadyLoadDraining ==
    /\ Alive
    /\ health.pc = "idle"
    /\ Len(health.answers) < MaxRequests
    /\ health' = [health EXCEPT !.pc = "loaded", !.draining = shutdown]
    /\ UNCHANGED <<taskLog, call, stamps, disk, inserted, cfg, readiness, shutdown, shutdown_rx, subscription, semaphore,
                   dedup, mainPc, loopPc, msg, tasks, resultBus, dlqBus, dlqFile, hbLog,
                   metrics, env>>

\* health.rs 38-44: state.readiness.load (if not draining) and the answer
ReadyAnswer ==
    /\ Alive
    /\ health.pc = "loaded"
    /\ health' = [health EXCEPT !.pc = "idle",
                                !.answers = Append(@, ReadyResponse(health.draining, readiness))]
    /\ UNCHANGED <<taskLog, call, stamps, disk, inserted, cfg, readiness, shutdown, shutdown_rx, subscription, semaphore,
                   dedup, mainPc, loopPc, msg, tasks, resultBus, dlqBus, dlqFile, hbLog,
                   metrics, env>>

HealthSpec ==
    BootInit /\ [][(\E ok \in BOOLEAN : BootConnect(ok))
                   \/ (\E ok \in BOOLEAN : BootSubscribe(ok))
                   \/ SigintReadiness
                   \/ SigintDraining
                   \/ Drain
                   \/ ReadyLoadDraining
                   \/ ReadyAnswer]_vars


(***************************************************************************)
(* Dedup on its own (main.rs 453-480): a window of any capacity and any    *)
(* sequence of inserts, as in test_dedup_basic.                            *)
(***************************************************************************)
DedupInit ==
    \E cap \in 0..MaxCapacity : Start(TRUE, "running", "active", 1, DedupNew(cap), DefaultDir, NoCall)

\* d.insert(key)
DedupInsertCall(key) ==
    /\ Len(inserted) < MaxInserts
    /\ dedup' = DedupInsert(dedup, key)
    /\ inserted' = Append(inserted, key)
    /\ UNCHANGED <<taskLog, call, stamps, disk, health, cfg, readiness, shutdown, shutdown_rx, subscription, semaphore,
                   mainPc, loopPc, msg, tasks, resultBus, dlqBus, dlqFile, hbLog, metrics, env>>

DedupSpec == DedupInit /\ [][\E key \in 1..NumKeys : DedupInsertCall(key)]_vars

(***************************************************************************)
(* The DLQ file on its own (dlq.rs): dead-letter writes, one at a time,    *)
(* into a directory that starts empty, while the clock advances.           *)
(***************************************************************************)
\* the limits are any that Config::from_env accepts (config.rs 102-138)
DlqInit ==
    \E c \in {k \in [max_bytes : MinDlqBytes..MaxDlqBytes,
                      max_rotations : 1..MaxDlqRotations,
                      total_max_bytes : MinDlqBytes..MaxDlqTotal,
                      max_age_days : {<<>>} \cup {<<d>> : d \in 1..MaxAgeDays}] :
                 k.total_max_bytes >= k.max_bytes} :
        Start(TRUE, "running", "active", 1, DedupNew(capacity), EmptyDir(c), NoCall)

\* the fault is one the call meets: rename and read_dir run only in a rotation
Met(fault) == fault \in {"rename", "read_dir"} => NeedsRotation(disk)

\* write_deadletter_to_file(&dlq, ...) of a line of len bytes
WriteDeadLetter(len, fault) ==
    /\ disk.writes < MaxWrites
    /\ Met(fault)
    /\ disk' = write_deadletter_to_file(disk, len, fault)
    /\ UNCHANGED <<taskLog, call, stamps, inserted, health, cfg, readiness, shutdown, shutdown_rx, subscription,
                   semaphore, dedup, mainPc, loopPc, msg, tasks, resultBus, dlqBus,
                   dlqFile, hbLog, metrics, env>>

\* Utc::now() moves on by a second
ClockTick ==
    /\ disk.now < MaxTime
    /\ disk' = [disk EXCEPT !.now = @ + 1]
    /\ UNCHANGED <<taskLog, call, stamps, inserted, health, cfg, readiness, shutdown, shutdown_rx, subscription,
                   semaphore, dedup, mainPc, loopPc, msg, tasks, resultBus, dlqBus,
                   dlqFile, hbLog, metrics, env>>

\* every file-system call succeeds
DlqSpec ==
    DlqInit /\ [][(\E len \in 1..MaxLineLen : WriteDeadLetter(len, "none")) \/ ClockTick]_vars

\* one of the calls of write_deadletter_to_file that return their io::Error
\* (rename, read_dir, open) may fail
DlqFaultSpec ==
    DlqInit /\ [][(\E len \in 1..MaxLineLen, fault \in {"rename", "read_dir", "open", "none"} :
                      WriteDeadLetter(len, fault))
                  \/ ClockTick]_vars

(***************************************************************************)
(* The envelope codec (protocol.rs) over serde_json::Value.  A JSON value   *)
(* is [t, v]: null, a string, a number or an object (a function from the   *)
(* keys that are present).  A Rust struct is a record, an Option a         *)
(* sequence of at most one element.  derive(Serialize) writes every field  *)
(* but the Option that is None (skip_serializing_if); derive(Deserialize)  *)
(* requires every field but the Options, reads a missing Option or a JSON  *)
(* null as None, and ignores unknown keys.                                 *)
(***************************************************************************)
JNull == [t |-> "null", v |-> 0]
JString(x) == [t |-> "string", v |-> x]
JNumber(n) == [t |-> "number", v |-> n]
JObject(f) == [t |-> "object", v |-> f]

Some(x) == <<x>>
None == <<>>

\* protocol.rs 79-89: ExecStatus and its serde names
ExecStatusName ==
    [Success |-> "success", Error |-> "error", Timeout |-> "timeout",
     Cancelled |-> "cancelled"]

\* the fields of a struct: name, type, and whether it is an Option
Field(name, ty, opt) == [name |-> name, ty |-> ty, opt |-> opt]

\* protocol.rs 73-77
JobFields == {Field("type", "String", FALSE), Field("payload", "Value", FALSE)}

\* the fields of ExecAssignment (protocol.rs 55-71), ExecResult (91-114) and
\* WorkerHeartbeat (116-122), by the EnvelopeKind their wrapper sets
FieldsOf ==
    [ExecAssign |->
        {Field("version", "String", FALSE), Field("assignment_id", "String", FALSE),
         Field("request_id", "String", FALSE), Field("tenant_id", "String", FALSE),
         Field("job", "Job", FALSE), Field("trace_id", "String", TRUE),
         Field("run_id", "String", TRUE), Field("flow_id", "String", TRUE),
         Field("step_id", "String", TRUE)},
     ExecResult |->
        {Field("version", "String", FALSE), Field("assignment_id", "String", FALSE),
         Field("request_id", "String", FALSE), Field("status", "ExecStatus", FALSE),
         Field("provider_id", "String", FALSE), Field("job_type", "String", FALSE),
         Field("output", "Value", TRUE), Field("latency_ms", "u64", FALSE),
         Field("cost", "f64", FALSE), Field("trace_id", "String", TRUE),
         Field("tenant_id", "String", TRUE), Field("run_id", "String", TRUE),
         Field("error_code", "String", TRUE), Field("error_message", "String", TRUE)},
     Heartbeat |->
        {Field("worker_id", "String", FALSE), Field("timestamp", "String", FALSE),
         Field("status", "String", FALSE), Field("load", "f64", FALSE)}]

\* skip_serializing_if = "Option::is_none"
Skips(f, x) == f.opt /\ x[f.name] = None

\* Serialize of a value of a type without fields of its own
SerializeScalar(ty, x) ==
    CASE ty = "String" -> JString(x)
      [] ty = "u64" -> JNumber(x)
      [] ty = "f64" -> JNumber(x)
      [] ty = "ExecStatus" -> JString(ExecStatusName[x])
      [] ty = "Value" -> x

\* serde_json::to_value of a struct whose fields are scalars
ObjectOf(x, fields) ==
    JObject([n \in {f.name : f \in {g \in fields : ~Skips(g, x)}} |->
               LET f == CHOOSE g \in fields : g.name = n
               IN  SerializeScalar(f.ty, IF f.opt THEN x[n][1] ELSE x[n])])

\* serde_json::to_value of a struct, a Job field being a struct itself
to_value(x, fields) ==
    JObject([n \in {f.name : f \in {g \in fields : ~Skips(g, x)}} |->
               LET f == CHOOSE g \in fields : g.name = n
                   v == IF f.opt THEN x[n][1] ELSE x[n]
               IN  IF f.ty = "Job" THEN ObjectOf(v, JobFields)
                   ELSE SerializeScalar(f.ty, v)])

\* Deserialize accepts j for a scalar type
AcceptsScalar(ty, j) ==
    CASE ty = "String" -> j.t = "string"
      [] ty = "u64" -> j.t = "number"
      [] ty = "f64" -> j.t = "number"
      [] ty = "ExecStatus" ->
            j.t = "string" /\ \E k \in DOMAIN ExecStatusName : ExecStatusName[k] = j.v
      [] ty = "Value" -> TRUE

\* Deserialize of a scalar type from j, which it accepts
DeserializeScalar(ty, j) ==
    CASE ty = "ExecStatus" -> CHOOSE k \in DOMAIN ExecStatusName : ExecStatusName[k] = j.v
      [] ty = "Value" -> j
      [] OTHER -> j.v

\* the key of field f is missing from object o, or holds null
Missing(f, o) == f.name \notin DOMAIN o \/ o[f.name] = JNull

\* derive(Deserialize) accepts object j for a struct of scalar fields
AcceptsFlat(j, fields) ==
    /\ j.t = "object"
    /\ \A f \in fields :
          IF f.opt /\ Missing(f, j.v) THEN TRUE
          ELSE f.name \in DOMAIN j.v /\ AcceptsScalar(f.ty, j.v[f.name])

\* derive(Deserialize) of a struct of scalar fields
StructOf(j, fields) ==
    [n \in {f.name : f \in fields} |->
        LET f == CHOOSE g \in fields : g.name = n
        IN  IF f.opt
            THEN IF Missing(f, j.v) THEN None
                 ELSE Some(DeserializeScalar(f.ty, j.v[n]))
            ELSE DeserializeScalar(f.ty, j.v[n])]

\* serde_json::from_value accepts j for the struct
Accepts(j, fields) ==
    /\ j.t = "object"
    /\ \A f \in fields :
          IF f.opt /\ Missing(f, j.v) THEN TRUE
          ELSE /\ f.name \in DOMAIN j.v
               /\ IF f.ty = "Job" THEN AcceptsFlat(j.v[f.name], JobFields)
                  ELSE AcceptsScalar(f.ty, j.v[f.name])

\* serde_json::from_value::<T>(j): Ok(the struct) or Err
from_value(j, fields) ==
    IF ~Accepts(j, fields) THEN [ok |-> FALSE]
    ELSE [ok |-> TRUE,
          v |-> [n \in {f.name : f \in fields} |->
                   LET f == CHOOSE g \in fields : g.name = n
                       de(k) == IF f.ty = "Job" THEN StructOf(k, JobFields)
                                ELSE DeserializeScalar(f.ty, k)
                   IN  IF f.opt
                       THEN IF Missing(f, j.v) THEN None ELSE Some(de(j.v[n]))
                       ELSE de(j.v[n])]]


\* protocol.rs 30-53: wrap_assignment, wrap_result, wrap_heartbeat
wrap(kind, x) == [version |-> "v1", kind |-> kind, data |-> to_value(x, FieldsOf[kind])]

\* the JSON values a payload or an output takes in these runs
Values == {JNull, JString("world"), JObject([hello |-> JString("world")])}

Optional(S) == {None} \cup {Some(x) : x \in S}

\* what is wrapped: the assignments of the tests (protocol.rs 155-168,
\* tests/unit.rs 6-16) with every payload and every choice of the optional
\* fields; the results Executor::execute and the timeout arm build
\* (executor.rs 55-70, main.rs 284-299) with cost 0.0, any status and any
\* output a handler hands back (handle_echo: Some(job.payload)); the
\* heartbeats of main.rs 136-141, 427-432 and 438-443, load in permits in use
Wrappable ==
    {[kind |-> "ExecAssign",
      x |-> [version |-> "1.0", assignment_id |-> "a1", request_id |-> "r1",
             tenant_id |-> "t1", job |-> [type |-> "echo", payload |-> p],
             trace_id |-> tr, run_id |-> ru, flow_id |-> fl, step_id |-> st]] :
        p \in Values, tr \in Optional({"tr-1"}), ru \in Optional({"run-1"}),
        fl \in Optional({"flow-1"}), st \in Optional({"step-1"})}
    \cup
    {[kind |-> "ExecResult",
      x |-> [version |-> "1.0", assignment_id |-> "a1", request_id |-> "r1", status |-> s,
             provider_id |-> "worker-1", job_type |-> "echo", output |-> o,
             latency_ms |-> 100, cost |-> 0, trace_id |-> tr, tenant_id |-> te,
             run_id |-> ru, error_code |-> ec, error_message |-> em]] :
        s \in DOMAIN ExecStatusName, o \in Optional(Values),
        tr \in Optional({"tr-1"}), te \in Optional({"t1"}), ru \in Optional({"run-1"}),
        ec \in Optional({"TIMEOUT"}), em \in Optional({"Task timed out"})}
    \cup
    {[kind |-> "Heartbeat",
      x |-> [worker_id |-> "worker-1", timestamp |-> "2026-01-01T00:00:00+00:00",
             status |-> s, load |-> l]] :
        s \in {"idle", "busy", "draining", "stopped"}, l \in 0..MaxConcurrency}

CodecInit ==
    \E w \in Wrappable :
        Start(TRUE, "running", "active", 1, DedupNew(capacity), DefaultDir,
              [op |-> "new", arg |-> w])

\* EventEnvelopeV1::wrap_*(&x)
WrapCall ==
    /\ call.op = "new"
    /\ call' = [op |-> "wrapped", arg |-> call.arg,
                env |-> wrap(call.arg.kind, call.arg.x)]
    /\ UNCHANGED <<taskLog, stamps, disk, inserted, health, cfg, readiness, shutdown, shutdown_rx,
                   subscription, semaphore, dedup, mainPc, loopPc, msg, tasks, resultBus,
                   dlqBus, dlqFile, hbLog, metrics, env>>

\* serde_json::from_value(env.data)
FromValueCall ==
    /\ call.op = "wrapped"
    /\ call' = [op |-> "decoded", arg |-> call.arg, env |-> call.env,
                ret |-> from_value(call.env.data, FieldsOf[call.env.kind])]
    /\ UNCHANGED <<taskLog, stamps, disk, inserted, health, cfg, readiness, shutdown, shutdown_rx,
                   subscription, semaphore, dedup, mainPc, loopPc, msg, tasks, resultBus,
                   dlqBus, dlqFile, hbLog, metrics, env>>

CodecSpec == CodecInit /\ [][WrapCall \/ FromValueCall]_vars

(***************************************************************************)
(* Subject validation (config.rs 31-61, 82-86, 165-173)                    *)
(***************************************************************************)
\* char::is_ascii_alphanumeric
is_ascii_alphanumeric(c) ==
    c \in {"a","b","c","d","e","f","g","h","i","j","k","l","m","n","o","p","q","r","s","t",
           "u","v","w","x","y","z","A","B","C","D","E","F","G","H","I","J","K","L","M","N",
           "O","P","Q","R","S","T","U","V","W","X","Y","Z",
           "0","1","2","3","4","5","6","7","8","9"}

\* str::trim; the space is the whitespace of the strings tried
RECURSIVE trim(_)
trim(s) ==
    IF s = <<>> THEN s
    ELSE IF Head(s) = " " THEN trim(Tail(s))
    ELSE IF s[Len(s)] = " " THEN trim(SubSeq(s, 1, Len(s) - 1))
    ELSE s

\* a validator that does not look at the last character
is_valid_subject_open_end(s) ==
    IF trim(s) = <<>> THEN FALSE
    ELSE LET allowed == \A i \in DOMAIN s :
                            is_ascii_alphanumeric(s[i]) \/ s[i] = "." \/ s[i] = "_" \/ s[i] = "-"
         IN  allowed /\ ~StrContains(s, <<".", ".">>) /\ ~(s[1] = ".")

\* config.rs 165-173
is_valid_subject(s) ==
    IF trim(s) = <<>> THEN FALSE
    ELSE LET allowed == \A i \in DOMAIN s :
                            is_ascii_alphanumeric(s[i]) \/ s[i] = "." \/ s[i] = "_" \/ s[i] = "-"
         IN  allowed /\ ~StrContains(s, <<".", ".">>) /\ ~(s[1] = ".") /\ ~(s[Len(s)] = ".")

\* env::var(..).unwrap_or_else(default) at config.rs 31-38 and 82-83: v is
\* None when the variable is not set
Subject(vars_set, k) ==
    IF vars_set[k] /= None THEN vars_set[k][1]
    ELSE [assign |-> <<"c","a","f",".","e","x","e","c",".","a","s","s","i","g","n",".","v","1">>,
          result |-> <<"c","a","f",".","e","x","e","c",".","r","e","s","u","l","t",".","v","1">>,
          heartbeat |-> <<"c","a","f",".","s","t","a","t","u","s",".","h","e","a","r","t","b","e","a","t",".","v","1">>,
          dlq |-> <<"c","a","f",".","d","e","a","d","l","e","t","t","e","r",".","v","1">>][k]

\* Config::from_env (config.rs 25-162) with the four subject variables as
\* given and every other variable not set: "Ok" or the Err message
from_env(vars_set) ==
    IF ~is_valid_subject(Subject(vars_set, "assign")) THEN "CAF_ASSIGN_SUBJECT invalid format"
    ELSE IF ~is_valid_subject(Subject(vars_set, "result")) THEN "CAF_RESULT_SUBJECT invalid format"
    ELSE IF ~is_valid_subject(Subject(vars_set, "heartbeat"))
         THEN "CAF_HEARTBEAT_SUBJECT invalid format"
    ELSE IF ~is_valid_subject(Subject(vars_set, "dlq")) THEN "CAF_DLQ_SUBJECT invalid format"
    ELSE "Ok"

\* the strings tried: at most MaxSubjectLen characters, each a letter of
\* either case, a digit, one of the three marks allowed, a space or a mark
\* not allowed
Strings ==
    UNION {[1..n -> {"a", "Z", "7", ".", "_", "-", " ", "*"}] : n \in 0..MaxSubjectLen}

\* one call of is_valid_subject(s) on a string of the bounded set
SubjectCall(s) ==
    /\ call.op = "none"
    /\ call' = [op |-> "is_valid_subject", arg |-> s, ret |-> is_valid_subject(s)]
    /\ UNCHANGED <<taskLog, stamps, disk, inserted, health, cfg, readiness, shutdown, shutdown_rx,
                   subscription, semaphore, dedup, mainPc, loopPc, msg, tasks, resultBus,
                   dlqBus, dlqFile, hbLog, metrics, env>>

\* one call of Config::from_env() under the settings of the four variables
FromEnvCall(vars_set) ==
    /\ call.op = "none"
    /\ call' = [op |-> "from_env", arg |-> vars_set, ret |-> from_env(vars_set)]
    /\ UNCHANGED <<taskLog, stamps, disk, inserted, health, cfg, readiness, shutdown, shutdown_rx,
                   subscription, semaphore, dedup, mainPc, loopPc, msg, tasks, resultBus,
                   dlqBus, dlqFile, hbLog, metrics, env>>

\* a subject variable is not set, well-formed, or rejected for a space
\* (test_config_validation), for emptiness or for a trailing dot
SubjectSpec ==
    Init /\ [][(\E s \in Strings : SubjectCall(s))
               \/ (\E vars_set \in [{"assign", "result", "heartbeat", "dlq"} ->
                                      Optional({<<"a", ".", "b">>, <<"a", " ", "b">>, <<>>,
                                                <<"a", ".">>})] :
                      FromEnvCall(vars_set))]_vars

(***************************************************************************)
(* The timeout extraction of a task on its own (main.rs 278-280), over the *)
(* JSON values job.payload.timeout_ms can hold: absent, a non-negative     *)
(* integer (serde_json PosInt), a negative integer (NegInt), a number with *)
(* a fraction (Float, v standing for v + 0.5), a string, null.             *)
(***************************************************************************)
TimeoutInit ==
    \E j \in {JsonAbsent, [t |-> "string", v |-> 0], [t |-> "null", v |-> 0]}
             \cup {JsonU64(n) : n \in 0..MaxTimeoutMs}
             \cup {[t |-> "i64", v |-> 0 - n] : n \in 1..MaxTimeoutMs}
             \cup {[t |-> "f64", v |-> n] : n \in 0..MaxTimeoutMs} :
        Start(TRUE, "running", "active", 1, DedupNew(capacity), DefaultDir,
              [op |-> "spawned", arg |-> Assignment(1, j)])

\* the first statement of the spawned task
TimeoutCall ==
    /\ call.op = "spawned"
    /\ call' = [op |-> "timeout_ms", arg |-> call.arg, ret |-> EffectiveTimeout(call.arg)]
    /\ UNCHANGED <<taskLog, stamps, disk, inserted, health, cfg, readiness, shutdown, shutdown_rx,
                   subscription, semaphore, dedup, mainPc, loopPc, msg, tasks, resultBus,
                   dlqBus, dlqFile, hbLog, metrics, env>>

TimeoutSpec == TimeoutInit /\ [][TimeoutCall]_vars

(***************************************************************************)
(* The pause before a publish retry on its own (main.rs 333-348), for any  *)
(* number of retries already made.  Below 2^64 the saturating operations   *)
(* are the plain ones, and the attempts of these runs stay far below.      *)
(***************************************************************************)
\* main.rs 337: min(30_000, 500.saturating_mul(2.saturating_pow(attempt)))
backoff_ms(attempt) ==
    LET product == 500 * 2^attempt
    IN  IF 30000 < product THEN 30000 ELSE product

\* a publish of the result has failed with e after `attempt` retries
BackoffInit ==
    \E n \in 0..MaxAttempt, e \in PublishErrors :
        Start(TRUE, "running", "active", 1, DedupNew(capacity), DefaultDir,
              [op |-> "publish_failed", attempt |-> n, error |-> e])

\* main.rs 335-347: the error is transient and a retry is left, with
\* result_publish_max_retries above the attempts of these runs; attempt is
\* incremented, the pause computed from it and slept
RetryPause ==
    /\ call.op = "publish_failed"
    /\ classify_publish_error(call.error)
    /\ call' = [op |-> "sleep", made |-> call.attempt, attempt |-> call.attempt + 1,
                backoff_ms |-> backoff_ms(call.attempt + 1)]
    /\ UNCHANGED <<taskLog, stamps, disk, inserted, health, cfg, readiness, shutdown, shutdown_rx,
                   subscription, semaphore, dedup, mainPc, loopPc, msg, tasks, resultBus,
                   dlqBus, dlqFile, hbLog, metrics, env>>

BackoffSpec == BackoffInit /\ [][RetryPause]_vars

(***************************************************************************)
(* The SQL handler (handlers/sql.rs) on its own: jobs running handle_sql   *)
(* on the threads of the runtime with the one pool cache of the executor.  *)
(* A pool is named by the job whose connect built it.  The cache is held   *)
(* under its mutex from lock() to the end of the block, so a block is one  *)
(* step; connect and fetch_all are awaited with the mutex free.            *)
(***************************************************************************)
\* jobs with or without connection_string and query, the cache empty
SqlInit ==
    \E js \in [1..MaxSqlJobs ->
                 [pc : {"start"}, key : Optional({"db1", "db2"}), query : BOOLEAN,
                  new_pool : {None}, pool : {None}, ret : {"none"}]] :
        Start(TRUE, "running", "active", 1, DedupNew(capacity), DefaultDir,
              [op |-> "sql", cache |-> [k \in {"db1", "db2"} |-> None], jobs |-> js])

SqlAt(j, pc) == call.op = "sql" /\ call.jobs[j].pc = pc

\* sql.rs 14-45: the payload's fields, then the first lookup
SqlLookup(j) ==
    /\ SqlAt(j, "start")
    /\ LET job == call.jobs[j]
       IN  call' = [call EXCEPT !.jobs[j] =
                IF job.key = None
                THEN [job EXCEPT !.pc = "done", !.ret = "MISSING_CONNECTION_STRING"]
                ELSE IF ~job.query
                THEN [job EXCEPT !.pc = "done", !.ret = "MISSING_QUERY"]
                ELSE IF call.cache[job.key[1]] /= None
                THEN [job EXCEPT !.pc = "query", !.pool = call.cache[job.key[1]]]
                ELSE [job EXCEPT !.pc = "connect"]]
    /\ UNCHANGED <<taskLog, stamps, disk, inserted, health, cfg, readiness, shutdown, shutdown_rx,
                   subscription, semaphore, dedup, mainPc, loopPc, msg, tasks, resultBus,
                   dlqBus, dlqFile, hbLog, metrics, env>>

\* sql.rs 48-61: connect returns a new pool or an error
SqlConnect(j, ok) ==
    /\ SqlAt(j, "connect")
    /\ call' = [call EXCEPT !.jobs[j] =
                   IF ok THEN [@ EXCEPT !.pc = "insert", !.new_pool = Some(j)]
                   ELSE [@ EXCEPT !.pc = "done", !.ret = "DB_CONNECTION_ERROR"]]
    /\ UNCHANGED <<taskLog, stamps, disk, inserted, health, cfg, readiness, shutdown, shutdown_rx,
                   subscription, semaphore, dedup, mainPc, loopPc, msg, tasks, resultBus,
                   dlqBus, dlqFile, hbLog, metrics, env>>

\* an insertion that does not look at the cache again
SqlInsertOverwrite(j) ==
    /\ SqlAt(j, "insert")
    /\ LET job == call.jobs[j]
           k == job.key[1]
       IN  call' = [call EXCEPT !.cache[k] = job.new_pool,
                                !.jobs[j] = [job EXCEPT !.pc = "query",
                                                        !.pool = job.new_pool]]
    /\ UNCHANGED <<taskLog, stamps, disk, inserted, health, cfg, readiness, shutdown, shutdown_rx,
                   subscription, semaphore, dedup, mainPc, loopPc, msg, tasks, resultBus,
                   dlqBus, dlqFile, hbLog, metrics, env>>

\* sql.rs 63-71: the second lookup, and the insertion if it finds nothing
SqlInsert(j) ==
    /\ SqlAt(j, "insert")
    /\ LET job == call.jobs[j]
           k == job.key[1]
       IN  IF call.cache[k] /= None
           THEN call' = [call EXCEPT !.jobs[j] = [job EXCEPT !.pc = "query",
                                                             !.pool = call.cache[k]]]
           ELSE call' = [call EXCEPT !.cache[k] = job.new_pool,
                                     !.jobs[j] = [job EXCEPT !.pc = "query",
                                                             !.pool = job.new_pool]]
    /\ UNCHANGED <<taskLog, stamps, disk, inserted, health, cfg, readiness, shutdown, shutdown_rx,
                   subscription, semaphore, dedup, mainPc, loopPc, msg, tasks, resultBus,
                   dlqBus, dlqFile, hbLog, metrics, env>>

\* sql.rs 74-141: the query runs on `pool`
SqlQuery(j, ok) ==
    /\ SqlAt(j, "query")
    /\ call' = [call EXCEPT !.jobs[j].pc = "done",
                            !.jobs[j].ret = IF ok THEN "Success" ELSE "DB_QUERY_ERROR"]
    /\ UNCHANGED <<taskLog, stamps, disk, inserted, health, cfg, readiness, shutdown, shutdown_rx,
                   subscription, semaphore, dedup, mainPc, loopPc, msg, tasks, resultBus,
                   dlqBus, dlqFile, hbLog, metrics, env>>

SqlSpec ==
    SqlInit /\ [][\E j \in 1..MaxSqlJobs :
                     \/ SqlLookup(j)
                     \/ \E ok \in BOOLEAN : SqlConnect(j, ok)
                     \/ SqlInsert(j)
                     \/ \E ok \in BOOLEAN : SqlQuery(j, ok)]_vars

(***************************************************************************)
(* Executions in which no SIGINT arrives: the supervisor stays in ctrl_c.  *)
(* The runtime schedules every task that can run, so a spawned task takes  *)
(* its next step and the loop resumes once its permit is granted.          *)
(***************************************************************************)
NoSignalNext == Pipeline \/ Task \/ StreamEnds

NoSignalSpec ==
    Init /\ [][NoSignalNext]_vars /\ WF_vars(Task) /\ WF_vars(LoopAcquired)

(***************************************************************************)
(* The same executions with the end of a task (main.rs 384-386) taken      *)
(* statement by statement: the tasks run on the threads of the runtime,    *)
(* and between the reading of available_permits() by one and its set of    *)
(* the gauge another may run.                                              *)
(***************************************************************************)
\* main.rs 384-385: drop(permit) and the reading of the permits in use
TaskReleaseRead(i) ==
    /\ TaskAt(i, "release")
    /\ semaphore' = ReleasePermit(semaphore)
    /\ tasks' = [tasks EXCEPT ![i].pc = "set_gauge", ![i].last_err = NoErr,
                              ![i].in_use = InUse(semaphore')]
    /\ UNCHANGED <<taskLog, call, stamps, disk, inserted, health, cfg, readiness, shutdown, shutdown_rx, subscription, dedup, mainPc,
                   loopPc, msg, resultBus, dlqBus, dlqFile, hbLog, metrics, env>>

\* main.rs 386: tasks_in_progress.set(in_use_after_release)
TaskSetGauge(i) ==
    /\ TaskAt(i, "set_gauge")
    /\ metrics' = [metrics EXCEPT !.tasks_in_progress = tasks[i].in_use]
    /\ tasks' = [tasks EXCEPT ![i].pc = "done", ![i].in_use = 0]
    /\ UNCHANGED <<taskLog, call, stamps, disk, inserted, health, cfg, readiness, shutdown, shutdown_rx, subscription, semaphore, dedup,
                   mainPc, loopPc, msg, resultBus, dlqBus, dlqFile, hbLog, env>>

GaugeSpec ==
    Init /\ [][NoSignalNext
               \/ (\E i \in 1..MaxEvents : TaskReleaseRead(i))
               \/ (\E i \in 1..MaxEvents : TaskSetGauge(i))]_vars


(***************************************************************************)
(* Executions with the signal, under the scheduling the runtime gives: a   *)
(* task that can run takes its next step (handlers return or time out,     *)
(* publish calls return), the loop resumes once its permit is granted, and *)
(* the supervisor continues once its await completes.  Nothing obliges the *)
(* environment to send a message or a signal.                              *)
(***************************************************************************)
\* The runs are those of a worker started with RESULT_PUBLISH_MAX_RETRIES at
\* its largest explored value: a task then both retries and gives up, which
\* is every way a task can hold its permit.
ShutdownInit == Init /\ cfg.result_publish_max_retries = MaxRetries

ShutdownSpec ==
    ShutdownInit /\ [][Next]_vars
    /\ WF_vars(Task) /\ WF_vars(LoopAcquired) /\ WF_vars(Drain)

(***************************************************************************)
(* Properties                                                              *)
(***************************************************************************)
\* Calls of task i that reached the bus
ResultsDelivered(i) == BagCount(resultBus, LAMBDA c : c.by = i /\ c.ok)
DeadLettersDelivered(i) == BagCount(dlqBus, LAMBDA c : c.by = i /\ c.ok)

\* C1: when the process has ended, every assignment the pipeline accepted
\* (decoded, not a duplicate) has exactly one outcome on the bus: one result
\* or one DLQ record, never both and never neither.
C1_ExactlyOneOutcome ==
    mainPc = "exited" =>
        /\ loopPc /= "acquire"
        /\ \A i \in DOMAIN tasks : ResultsDelivered(i) + DeadLettersDelivered(i) = 1

\* C2: the tasks spawned and still holding their permit never outnumber
\* max_concurrency.
C2_ConcurrencyBound ==
    Cardinality({i \in DOMAIN tasks : tasks[i].pc /= "done"}) <= cfg.max_concurrency

\* C2 witness: the limit is reached while a further assignment waits.
C2_AtLimit ==
    /\ Cardinality({i \in DOMAIN tasks : tasks[i].pc /= "done"}) = cfg.max_concurrency
    /\ loopPc = "acquire"

\* The step is the loop's read of a decodable assignment whose id is in the
\* dedup window.
DuplicateRead ==
    /\ msg'.n = msg.n + 1
    /\ msg'.payload.data.valid
    /\ msg'.payload.kind \in {"exec_assign", "none"}
    /\ msg'.payload.data.assignment_id \in dedup.set

\* C3: reading an assignment whose id is in the dedup window spawns no task,
\* takes no permit, publishes nothing and writes no dead-letter; the window
\* and the metrics stay as they are and the loop goes back to its select.
C3_DuplicateDropped ==
    [][DuplicateRead =>
          /\ UNCHANGED <<tasks, semaphore, resultBus, dlqBus, dlqFile, dedup, metrics>>
          /\ loopPc' = "select"]_vars

\* C3 witness: a second delivery of an id in the window has been dropped while
\* the first delivery's task exists.
C3_DuplicateSeen ==
    /\ msg.log = "Duplicate assignment detected, skipping"
    /\ \E i \in DOMAIN tasks :
          tasks[i].assignment.assignment_id = msg.payload.data.assignment_id

\* Delivered result calls that carry assignment id `id`
DeliveredFor(id) ==
    {c \in BagToSet(resultBus) : c.ok /\ c.result.assignment_id = id}

\* C4 as stated: no two results are ever published with the same assignment id.
C4_NoTwoResults ==
    \A id \in Ids : BagCount(resultBus, LAMBDA c : c.ok /\ c.result.assignment_id = id) <= 1

\* C4 amended: a task publishes at most one result, and two tasks run for the
\* same assignment id only if at least `capacity` other ids were accepted
\* between them (the id had left the dedup window).
C4_NoTwoResultsInWindow ==
    /\ \A i \in DOMAIN tasks : ResultsDelivered(i) <= 1
    /\ \A i, j \in DOMAIN tasks :
          (i < j /\ tasks[i].assignment.assignment_id = tasks[j].assignment.assignment_id)
          => Cardinality({tasks[k].assignment.assignment_id : k \in (i + 1)..(j - 1)})
                >= capacity

\* C4 witness: two results on the bus carry the same assignment id.
C4_TwoResults ==
    \E id \in Ids : Cardinality({c.by : c \in DeliveredFor(id)}) >= 2

\* C5: without a shutdown signal, an assignment accepted while every permit is
\* in use is not dropped: the loop leaves its wait only by spawning the task
\* of that assignment, and, the running tasks finishing, it does leave it.
C5_BackpressureWaits ==
    /\ [][(loopPc = "acquire" /\ loopPc' /= "acquire")
            => tasks' = Append(tasks, NewTask(msg.payload.data))]_vars
    /\ (loopPc = "acquire") ~> (loopPc /= "acquire")

\* C5 witness: the assignment read under backpressure has been spawned.
C5_SpawnedAfterWait ==
    /\ msg.log = "Backpressure: concurrency limit reached"
    /\ loopPc /= "acquire"
    /\ Len(tasks) >= cfg.max_concurrency + 1
    /\ tasks[Len(tasks)].assignment = msg.payload.data

\* C6: the result of a task past its execution is the handler's own (status,
\* error_code, error_message) if the handler returned in time, and otherwise
\* status timeout, error_code TIMEOUT, error_message "Task timed out" with
\* latency_ms the payload's timeout_ms (the default if it has none); both carry
\* the assignment's ids, and it is this result that every publish call sends.
C6_HandlerOrTimeout ==
    \A i \in DOMAIN tasks :
        tasks[i].pc /= "exec" =>
            LET t == tasks[i]
                a == t.assignment
                deadline == IF a.timeout_ms.t = "u64" THEN a.timeout_ms.v
                            ELSE default_timeout_ms
            IN  /\ t.result.assignment_id = a.assignment_id
                /\ t.result.request_id = a.request_id
                /\ IF t.timed_out
                   THEN /\ t.result.status = "timeout"
                        /\ t.result.error_code = "TIMEOUT"
                        /\ t.result.error_message = "Task timed out"
                        /\ t.result.latency_ms = deadline
                   ELSE /\ t.handler \in HandlerReturns
                        /\ t.result.status = t.handler.status
                        /\ t.result.error_code = t.handler.error_code
                        /\ t.result.error_message = t.handler.error_message
                /\ \A c \in BagToSet(resultBus) : c.by = i => c.result = t.result

\* C6 witness: a task whose payload carries timeout_ms has timed out and its
\* result is on the bus.
C6_TimedOutPublished ==
    \E i \in DOMAIN tasks :
        /\ tasks[i].timed_out
        /\ tasks[i].assignment.timeout_ms.t = "u64"
        /\ ResultsDelivered(i) = 1

\* Publish calls task i has made on the result subject
Attempts(i) == BagCount(resultBus, LAMBDA c : c.by = i)

\* The message names a transient condition
MentionsTransient(e) ==
    \E w \in {S_connection, S_timeout, S_broken_pipe} :
        \E k \in 1..Len(e) : k + Len(w) - 1 <= Len(e) /\ SubSeq(e, k, k + Len(w) - 1) = w

\* C7: a task makes at most result_publish_max_retries + 1 publish attempts; it
\* is back in the publish loop after an error only if the error's message
\* contains "connection", "timeout" or "broken pipe"; it gives up on an error
\* exactly when the error is permanent or the retries are used up, having made
\* one attempt more than retries, so a first permanent error, or any first
\* error with result_publish_max_retries = 0, is dead-lettered after one attempt.
C7_RetryPolicy ==
    \A i \in DOMAIN tasks :
        LET t == tasks[i]
            max == cfg.result_publish_max_retries
            gave_up == t.pc = "release" /\ ResultsDelivered(i) = 0
        IN  /\ Attempts(i) <= max + 1
            /\ t.attempt <= max
            /\ (t.pc = "publish" /\ t.attempt > 0) => MentionsTransient(t.last_err)
            /\ t.pc = "publish" => Attempts(i) = t.attempt
            /\ gave_up =>
                  /\ ~MentionsTransient(t.last_err) \/ t.attempt = max
                  /\ Attempts(i) = t.attempt + 1
                  /\ BagCount(dlqBus, LAMBDA d : d.by = i) = 1

\* C7 witness: a task has used up its retries and given up.
C7_RetriesExhausted ==
    \E i \in DOMAIN tasks :
        /\ cfg.result_publish_max_retries >= 1
        /\ tasks[i].pc = "release"
        /\ MentionsTransient(tasks[i].last_err)
        /\ Attempts(i) = cfg.result_publish_max_retries + 1
        /\ ResultsDelivered(i) = 0

\* Dead-letter calls of `by` in bag B
DeadLetterCalls(B, by) == {d \in BagToSet(B) : d.by = by}

\* C8: a task that has left the publish loop without a delivered result has
\* made exactly one DLQ file append and one DLQ publish, both with reason
\* PUBLISH_ERROR for its assignment, and has raised dlq_published_total by
\* one; any other task has made none.  (The loop raises the counter once per
\* PARSE_ERROR dead-letter, which is all else that the counter holds.)
C8_OneDeadLetterPerFailure ==
    LET failed == {i \in DOMAIN tasks :
                      tasks[i].pc \in {"release", "done"} /\ ResultsDelivered(i) = 0}
    IN  /\ \A i \in DOMAIN tasks :
              LET n == IF i \in failed THEN 1 ELSE 0
              IN  /\ BagCount(dlqFile, LAMBDA d : d.by = i) = n
                  /\ BagCount(dlqBus, LAMBDA d : d.by = i) = n
                  /\ \A d \in DeadLetterCalls(dlqFile, i) \cup DeadLetterCalls(dlqBus, i) :
                        /\ d.reason = "PUBLISH_ERROR"
                        /\ d.payload_ref.id = tasks[i].assignment.assignment_id
        /\ metrics.dlq_published_total =
              Cardinality(failed)
              + BagCount(dlqFile, LAMBDA d : d.by = 0 /\ d.reason = "PARSE_ERROR")

\* C8 witness: one task has failed to publish for good and another has
\* published its result.
C8_FailedAndSucceeded ==
    \E i, j \in DOMAIN tasks :
        /\ tasks[i].pc = "done" /\ ResultsDelivered(i) = 0
        /\ tasks[j].pc = "done" /\ ResultsDelivered(j) = 1
        /\ metrics.dlq_published_total = 1

\* The step is the loop's read of a payload that is neither an envelope of
\* another kind nor decodable as an assignment.
MalformedRead ==
    /\ msg'.n = msg.n + 1
    /\ msg'.payload.kind \in {"exec_assign", "none"}
    /\ ~msg'.payload.data.valid

\* C9: reading a malformed payload, PARSE_ERROR or DECODE_ERROR, makes one DLQ
\* file append and one DLQ publish and raises dlq_published_total by exactly
\* one; it takes no permit, leaves the dedup window and the tasks alone, and
\* the loop goes on with the next message.
C9_MalformedDeadLettered ==
    [][MalformedRead =>
          /\ BagCardinality(dlqFile') = BagCardinality(dlqFile) + 1
          /\ BagCardinality(dlqBus') = BagCardinality(dlqBus) + 1
          /\ metrics'.dlq_published_total = metrics.dlq_published_total + 1
          /\ UNCHANGED <<semaphore, dedup, tasks>>
          /\ loopPc' = "select"]_vars

\* The step publishes the stopped heartbeat.
StoppedPublished ==
    /\ Len(hbLog') = Len(hbLog) + 1
    /\ hbLog'[Len(hbLog')].status = "stopped"

\* C10: the draining heartbeat precedes the stopped heartbeat, the stopped
\* heartbeat is published only when no spawned task still holds its permit,
\* and the process ends with no task in flight.
C10_DrainBeforeStopped ==
    [][/\ StoppedPublished =>
            /\ \E k \in DOMAIN hbLog : hbLog[k].status = "draining"
            /\ \A i \in DOMAIN tasks : tasks[i].pc = "done"
       /\ mainPc' = "exited" => \A i \in DOMAIN tasks : tasks[i].pc = "done"]_vars

\* C11: once the supervisor has handled SIGINT it eventually holds all the
\* permits, publishes the stopped heartbeat and exits: the drain does not
\* block forever against the loop or the tasks.
C11_DrainTerminates ==
    (mainPc = "acquire_all")
        ~> (mainPc = "exited" /\ hbLog[Len(hbLog)].status = "stopped")

\* C11 witness: the supervisor has exited after a drain that began with
\* permits in use.
C11_DrainedAndExited ==
    /\ mainPc = "exited"
    /\ hbLog[1].status = "draining" /\ hbLog[1].in_use >= 1
    /\ hbLog[Len(hbLog)].status = "stopped"
    /\ \A i \in DOMAIN tasks : tasks[i].pc = "done"

\* The step is the loop's read of a decodable assignment.
AssignmentRead ==
    /\ msg'.n = msg.n + 1
    /\ msg'.payload.kind \in {"exec_assign", "none"}
    /\ msg'.payload.data.valid

\* C12: once the draining flag is set and the shutdown broadcast is sent, no
\* assignment the loop reads enters the dedup window or is spawned as a task.
C12_NoAcceptAfterSignal ==
    [][(shutdown /\ shutdown_rx = "sent" /\ AssignmentRead)
          => (dedup' = dedup /\ tasks' = tasks)]_vars

\* The step publishes a heartbeat; Published is the heartbeat.
HeartbeatPublished == Len(hbLog') = Len(hbLog) + 1
Published == hbLog'[Len(hbLog')]

\* C13: after the draining heartbeat no idle or busy heartbeat is published,
\* so a worker that has exited published draining and stopped last, in that
\* order; and draining and stopped are not published before SIGINT is handled.
C13_HeartbeatLoopCancelled ==
    [][/\ (HeartbeatPublished /\ Published.status \in {"idle", "busy"})
            => \A k \in DOMAIN hbLog : hbLog[k].status /= "draining"
       /\ (HeartbeatPublished /\ Published.status \in {"draining", "stopped"})
            => shutdown'
       /\ mainPc' = "exited"
            => /\ Len(hbLog') >= 2
               /\ hbLog'[Len(hbLog') - 1].status = "draining"
               /\ hbLog'[Len(hbLog')].status = "stopped"]_vars

\* C14: a periodic heartbeat is busy exactly when a permit was in use at its
\* tick and idle exactly when none was, in use being max_concurrency less the
\* free permits at the tick; its load is in_use / max_concurrency, which is
\* within [0, 1].
C14_PeriodicHeartbeat ==
    [][(HeartbeatPublished /\ Published.status \in {"idle", "busy"}) =>
          LET used == cfg.max_concurrency - semaphore.permits
          IN  /\ Published.in_use = used
              /\ Published.status = "busy" <=> used >= 1
              /\ Published.status = "idle" <=> used = 0
              /\ 0 <= Published.in_use /\ Published.in_use <= cfg.max_concurrency]_vars

\* C14 witness: a busy and an idle periodic heartbeat have been published.
C14_BusyAndIdle ==
    \E j, k \in DOMAIN hbLog :
        /\ hbLog[j].status = "busy" /\ hbLog[j].in_use = cfg.max_concurrency
        /\ hbLog[k].status = "idle" /\ hbLog[k].in_use = 0

\* The step answers a GET /readyz; Answer is the answer.
Answered == Len(health'.answers) = Len(health.answers) + 1
Answer == health'.answers[Len(health'.answers)]

\* C15: /readyz answers 200 READY only in a state where readiness is true and
\* draining is false, which is a state after the first successful subscribe
\* and before the handling of SIGINT; it answers 503 DRAINING when it finds
\* draining true, and draining is then true; it answers 503 NOT_READY in the
\* remaining case, and readiness is then false.
C15_Readyz ==
    [][Answered =>
          /\ Answer.body = (IF health.draining THEN "DRAINING"
                            ELSE IF readiness THEN "READY" ELSE "NOT_READY")
          /\ Answer.code = (IF Answer.body = "READY" THEN 200 ELSE 503)
          /\ Answer.body = "READY" =>
                (readiness /\ ~shutdown /\ mainPc = "running" /\ subscription = "active")
          /\ Answer.body = "DRAINING" => shutdown
          /\ Answer.body = "NOT_READY" => ~readiness]_vars

\* C15 witness: NOT_READY during boot, READY once subscribed, DRAINING after
\* the signal.
C15_ThreeAnswers ==
    /\ Len(health.answers) = 3
    /\ health.answers[1].body = "NOT_READY"
    /\ health.answers[2].body = "READY"
    /\ health.answers[3].body = "DRAINING"

\* C16: after any inserts the window holds at most capacity ids, its set and
\* its queue hold the same ids, none twice; an insert of an id in the window
\* changes nothing, an insert of a new id appends it, and when the window is
\* full it is the oldest id, the head of the queue, that leaves.
C16_DedupWindow ==
    /\ [](/\ Len(dedup.queue) <= dedup.capacity
          /\ dedup.set = {dedup.queue[k] : k \in DOMAIN dedup.queue}
          /\ Cardinality(dedup.set) = Len(dedup.queue))
    /\ [][inserted' /= inserted =>
            LET key == inserted'[Len(inserted')]
                q == dedup.queue
            IN  /\ dedup'.capacity = dedup.capacity
                /\ IF key \in dedup.set \/ dedup.capacity = 0
                   THEN dedup'.queue = q
                   ELSE IF Len(q) < dedup.capacity
                        THEN dedup'.queue = Append(q, key)
                        ELSE dedup'.queue = Append(Tail(q), key)]_vars

\* C16 witness: with capacity 2 the third distinct id has evicted the first.
C16_ThirdEvictsFirst ==
    /\ dedup.capacity = 2
    /\ inserted = <<1, 2, 3>>
    /\ dedup.queue = <<2, 3>>
    /\ dedup.set = {2, 3}


\* the step is a call of write_deadletter_to_file
Written == disk'.writes = disk.writes + 1

OnDiskBytes == TotalSize(SortByName(disk.rotated)) + disk.active.size

\* a call of write_deadletter_to_file has returned Ok
WriteCompleted == disk.writes > 0 /\ disk.last.ok

\* C18: after every completed write the DLQ files on disk, rotated and active
\* together, hold at most dlq_total_max_bytes.
C18_TotalBytes == WriteCompleted => OnDiskBytes <= disk.cfg.total_max_bytes

\* C19: after every completed write the active segment holds at most
\* dlq_max_bytes.
C19_ActiveSize == WriteCompleted => disk.active.size <= disk.cfg.max_bytes

\* C20: a write whose rotation fails, in the rename or in the enforcement of
\* the limits after it, still appends its record to the active file, creating
\* the file if it is absent.
C20_FailedRotationKeepsWrite ==
    [][Written /\ disk'.last.failed \in {"rename", "read_dir"} =>
        /\ disk'.active.exists
        /\ disk'.active.size =
             (IF disk'.last.failed = "rename" THEN disk.active.size ELSE 0)
             + disk'.last.len]_vars


\* the dead-letters added to bag B by this step
AddedTo(B, Bnext) == {e \in BagToSet(Bnext) : CopiesIn(e, Bnext) > CopiesIn(e, B)}

\* C21: when write_deadletter_to_file fails, the caller still publishes the
\* dead-letter on the DLQ subject; the loop stays at its select! on the same
\* subscription, and a task goes on to release its permit.
C21_FileSinkFailureSwallowed ==
    [][\A e \in AddedTo(dlqFile, dlqFile') :
          ~e.ok =>
            /\ \E b \in AddedTo(dlqBus, dlqBus') :
                  /\ b.reason = e.reason
                  /\ b.payload_ref = e.payload_ref
                  /\ b.by = e.by
            /\ e.by = 0 => loopPc' = "select" /\ subscription' = subscription
            /\ e.by > 0 => tasks'[e.by].pc = "release"]_vars

\* a task whose PUBLISH_ERROR dead-letter could not be written has published
\* it and released its permit
C21_FailedWriteThenReleased ==
    \E i \in DOMAIN tasks :
        /\ tasks[i].pc = "done"
        /\ \E e \in BagToSet(dlqFile) : e.by = i /\ ~e.ok
        /\ \E b \in BagToSet(dlqBus) : b.by = i /\ b.reason = "PUBLISH_ERROR"
        /\ semaphore.permits = cfg.max_concurrency


\* the step is a read by the loop's select!
LoopRead == msg'.n = msg.n + 1

\* C22: after spawning a task the loop is back at its select! on the same
\* subscription, and it enters the one-second pause only after reading None.
C22_DirectReturnAfterSpawn ==
    [][/\ Len(tasks') > Len(tasks) => loopPc' = "select" /\ subscription' = subscription
       /\ (loopPc /= "sleep" /\ loopPc' = "sleep") => msg'.payload = NoMsg]_vars

\* C23: a stream end read without shutdown takes the loop to the pause; the
\* pause without shutdown ends in one call of subscribe; after the call,
\* failed or not, the loop is at its select! again, on the ended stream if the
\* call failed; and the loop leaves only when shutdown is signaled.
C23_ResubscribeUntilShutdown ==
    [][/\ (LoopRead /\ msg'.payload = NoMsg /\ ~shutdown) => loopPc' = "sleep"
       /\ (loopPc = "sleep" /\ loopPc' /= "sleep" /\ ~shutdown) => loopPc' = "resub"
       /\ (loopPc' = "resub" /\ loopPc /= "resub") => loopPc = "sleep"
       /\ (loopPc = "resub" /\ loopPc' /= "resub") =>
             /\ loopPc' = "select"
             /\ subscription' = "active" \/ subscription' = subscription
       /\ (loopPc' = "exited" /\ loopPc /= "exited") => shutdown]_vars

\* subscribe has failed after a stream end: the loop is at its select! on the
\* ended stream, with subs_active still 0 and no shutdown
C23_RetryAfterFailedResubscribe ==
    /\ Alive /\ ~shutdown
    /\ loopPc = "select"
    /\ subscription = "ended"
    /\ metrics.subs_active = 0


\* the tasks that have not dropped their permit
InFlight == {i \in DOMAIN tasks : tasks[i].pc /= "done"}

\* the permit granted to the loop's acquire_owned and not yet moved into a task
LoopGranted == IF loopPc = "acquire" /\ ~Waiting(semaphore, "loop") THEN 1 ELSE 0

\* the permits acquire_many_owned has collected and the supervisor not dropped
MainTaken ==
    IF mainPc /= "acquired" THEN 0
    ELSE IF \E k \in DOMAIN semaphore.waiters : semaphore.waiters[k].who = "main"
         THEN LET k == CHOOSE k \in DOMAIN semaphore.waiters :
                         semaphore.waiters[k].who = "main"
              IN  cfg.max_concurrency - semaphore.waiters[k].need
         ELSE cfg.max_concurrency

\* C24: a task holds one permit from its spawn until its drop(permit), which
\* comes after its result was published or its dead-letter recorded, whatever
\* the handler's outcome, and gives it back once: the free permits and the
\* permits held always add up to max_concurrency.  With no task in flight, no
\* assignment waiting to be spawned and no shutdown, every permit is free.
C24_PermitHeldAndReleasedOnce ==
    /\ [](/\ semaphore.permits + Cardinality(InFlight) + LoopGranted + MainTaken
               = cfg.max_concurrency
          /\ (~shutdown /\ InFlight = {} /\ loopPc /= "acquire") =>
                semaphore.permits = cfg.max_concurrency)
    /\ [][\A i \in DOMAIN tasks :
            (tasks[i].pc /= "done" /\ tasks'[i].pc = "done") =>
                /\ tasks[i].pc = "release"
                /\ tasks[i].publish \in {"ok", "failed"}
                /\ tasks[i].publish = "failed" =>
                      \E e \in BagToSet(dlqFile) : e.by = i /\ e.reason = "PUBLISH_ERROR"]_vars

\* two tasks have ended, one with its result published and one timed out and
\* dead-lettered, and every permit is free again
C24_AllReleased ==
    /\ ~shutdown
    /\ Len(tasks) = 2 /\ InFlight = {}
    /\ tasks[1].publish = "ok" /\ tasks[2].publish = "failed"
    /\ tasks[2].timed_out
    /\ semaphore.permits = cfg.max_concurrency


\* the tasks whose handler returned status error before the deadline
HandlerErrors ==
    {i \in DOMAIN tasks : tasks[i].pc /= "exec" /\ tasks[i].result.status = "error"}

\* C25: a handler's error, UNKNOWN_JOB_TYPE included, becomes the task's
\* result with the handler's error_code, is counted in task_failed, is what
\* the task publishes on the result subject, and is dead-lettered only if that
\* publish fails.
C25_HandlerErrorIsResult ==
    /\ \A i \in DOMAIN tasks :
          (tasks[i].pc /= "exec" /\ ~tasks[i].timed_out /\ tasks[i].handler.status = "error") =>
              /\ tasks[i].result.status = "error"
              /\ tasks[i].result.error_code = tasks[i].handler.error_code
    /\ metrics.task_failed = Cardinality(HandlerErrors)
    /\ \A i \in HandlerErrors :
          /\ \A c \in BagToSet(resultBus) : c.by = i => c.result = tasks[i].result
          /\ tasks[i].publish = "ok" =>
                \E c \in BagToSet(resultBus) : c.by = i /\ c.ok
          /\ (\E e \in BagToSet(dlqFile) \cup BagToSet(dlqBus) : e.by = i) =>
                tasks[i].publish = "failed"

\* an UNKNOWN_JOB_TYPE result was published and counted, with no dead-letter
C25_UnknownJobTypePublished ==
    \E i \in DOMAIN tasks :
        /\ tasks[i].result.error_code = "UNKNOWN_JOB_TYPE"
        /\ tasks[i].publish = "ok"
        /\ metrics.task_failed = 1
        /\ dlqFile = EmptyBag /\ dlqBus = EmptyBag


\* the step reads a well-formed envelope whose kind is not exec_assign
UnexpectedKindRead ==
    /\ LoopRead
    /\ msg'.payload.envelope
    /\ msg'.payload.kind /= "exec_assign"

\* C26: an envelope of another kind is logged and discarded: no dead-letter
\* is written or published, the semaphore and the dedup window are untouched,
\* no task is spawned, and the loop is back at its select!.
C26_OtherKindDiscarded ==
    [][UnexpectedKindRead =>
          /\ msg'.log = "Unexpected envelope kind"
          /\ UNCHANGED <<dlqFile, dlqBus, resultBus, semaphore, dedup, tasks, metrics,
                         loopPc, subscription>>]_vars

\* a heartbeat envelope was read from the assign subject and nothing else
\* has happened
C26_HeartbeatEnvelopeRead ==
    /\ msg.n = 1
    /\ msg.payload.envelope /\ msg.payload.kind = "heartbeat"
    /\ msg.log = "Unexpected envelope kind"
    /\ loopPc = "select"
    /\ dlqFile = EmptyBag /\ dlqBus = EmptyBag /\ tasks = <<>>

\* C27: an envelope of unexpected kind is routed to the DLQ: a dead-letter is
\* appended to the DLQ file and published on the DLQ subject.
C27_OtherKindDeadLettered ==
    [][UnexpectedKindRead =>
          /\ AddedTo(dlqFile, dlqFile') /= {}
          /\ AddedTo(dlqBus, dlqBus') /= {}]_vars


\* C28: the heartbeats on the heartbeat subject carry non-decreasing
\* timestamps, however the periodic loop and the supervisor interleave.
C28_MonotoneTimestamps ==
    \A k \in 1..(Len(hbLog) - 1) : hbLog[k].timestamp <= hbLog[k + 1].timestamp


\* C29: wrapping an assignment, a result or a heartbeat and decoding the
\* envelope's data gives back the value that was wrapped, the envelope
\* carrying version v1 and the kind of the wrapped type.
C29_EnvelopeRoundTrip ==
    call.op = "decoded" =>
        /\ call.env.version = "v1"
        /\ call.env.kind = call.arg.kind
        /\ call.ret.ok
        /\ call.ret.v = call.arg.x


\* the subject grammar: non-empty, characters of [A-Za-z0-9._-] only, no dot
\* at either end, no two dots in a row
WellFormedSubject(s) ==
    /\ Len(s) > 0
    /\ \A i \in DOMAIN s : is_ascii_alphanumeric(s[i]) \/ s[i] \in {".", "_", "-"}
    /\ s[1] /= "." /\ s[Len(s)] /= "."
    /\ ~\E i \in 1..(Len(s) - 1) : s[i] = "." /\ s[i + 1] = "."

C31_EffectiveTimeout ==
    call.op = "timeout_ms" =>
        call.ret = (IF call.arg.timeout_ms.t = "u64" /\ call.arg.timeout_ms.v > 0
                    THEN call.arg.timeout_ms.v
                    ELSE default_timeout_ms)


\* C32: before the retry that follows a transient publish failure with n
\* retries already made, the task sleeps min(30000, 500 * 2^n) ms: 500 ms
\* before the first retry, doubling, never more than 30000 ms.
C32_BackoffDoubling ==
    call.op = "sleep" =>
        call.backoff_ms = (IF 30000 < 500 * 2^call.made THEN 30000 ELSE 500 * 2^call.made)


\* C33: whenever no permit acquisition or release step is in progress, the
\* tasks_in_progress gauge equals the number of permits in use, whatever the
\* interleaving of the loop's update after acquire with the tasks' updates
\* after release.
C33_GaugeIsOccupancy ==
    (loopPc /= "acquire" /\ \A i \in DOMAIN tasks : tasks[i].pc /= "set_gauge")
        => metrics.tasks_in_progress = InUse(semaphore)


\* the jobs that have a pool to run their query on
SqlConnected == {j \in 1..MaxSqlJobs : call.jobs[j].pool /= None}

\* C34: for any interleaving of concurrent SQL jobs using one connection
\* string, a pool once cached for a key is never replaced, every job that
\* connects runs its query on the cached pool, and once the jobs are done
\* the cache holds one pool for each key a job has connected with.
C34_OnePoolPerKey ==
    /\ [][\A k \in DOMAIN call.cache :
             call.cache[k] /= None => call'.cache[k] = call.cache[k]]_vars
    /\ [](\A j \in SqlConnected : call.jobs[j].pool = call.cache[call.jobs[j].key[1]])
    /\ []((\A j \in 1..MaxSqlJobs : call.jobs[j].pc = "done")
             => \A k \in DOMAIN call.cache :
                   call.cache[k] /= None <=> \E j \in SqlConnected : call.jobs[j].key = Some(k))

\* two jobs with one connection string have both built a pool; the second
\* to insert has discarded its own and run its query on the other's
C34_LoserPoolDiscarded ==
    /\ call.op = "sql"
    /\ \E i, j \in 1..MaxSqlJobs :
          /\ i /= j
          /\ call.jobs[i].key = call.jobs[j].key
          /\ call.jobs[i].new_pool = Some(i) /\ call.jobs[i].pool = Some(i)
          /\ call.jobs[j].new_pool = Some(j) /\ call.jobs[j].pool = Some(i)
          /\ call.jobs[j].ret = "Success"


\* the state the log is to show for a result's status
TerminalOf(status) ==
    [success |-> "completed", error |-> "failed", timeout |-> "timeout",
     cancelled |-> "cancelled"][status]

\* C35: for every accepted assignment the logged states are queued, then
\* running once the permit is acquired, then one terminal state, the one the
\* mapping success->completed, error->failed, timeout->timeout,
\* cancelled->cancelled gives for the result's status.
C35_TaskStateOrder ==
    /\ [](\A i \in DOMAIN taskLog :
            LET st == taskLog[i].states
            IN  /\ Len(st) \in 1..3
                /\ st[1] = "queued"
                /\ Len(st) >= 2 => /\ st[2] = "running"
                                   /\ i \in DOMAIN tasks
                                   /\ tasks[i].assignment.assignment_id = taskLog[i].assignment_id
                /\ Len(st) < 2 => /\ i \notin DOMAIN tasks
                                  /\ loopPc = "acquire"
                /\ Len(st) = 3 => /\ tasks[i].pc /= "exec"
                                  /\ st[3] = TerminalOf(tasks[i].result.status)
                /\ Len(st) = 2 => tasks[i].pc = "exec")
    /\ [][\A i \in DOMAIN taskLog :
             /\ i \in DOMAIN taskLog'
             /\ Len(taskLog'[i].states) >= Len(taskLog[i].states)
             /\ SubSeq(taskLog'[i].states, 1, Len(taskLog[i].states)) = taskLog[i].states]_vars

\* the second assignment accepted has waited for its permit, run and failed
C35_QueuedRunningFailed ==
    /\ Len(taskLog) >= 2
    /\ taskLog[2].states = <<"queued", "running", "failed">>
    /\ tasks[2].result.status = "error"
    /\ cfg.max_concurrency = 1


\* the tasks that have logged their terminal state
Finished == {i \in DOMAIN tasks : tasks[i].pc /= "exec"}

\* C36: each task that reaches a terminal state adds one observation to the
\* task duration histogram: with n tasks finished its sample count is n.
C36_OneObservationPerTask == metrics.task_duration_count = Cardinality(Finished)

\* C37: an assignment accepted and waiting for a permit when SIGINT arrives,
\* or accepted while the supervisor takes all permits, is not abandoned: once
\* the stopped heartbeat is published no accepted assignment is still
\* waiting to be spawned and every spawned one has published.
C37_WaitingAssignmentNotAbandoned ==
    mainPc \in {"exit", "exited"} =>
        /\ loopPc /= "acquire"
        /\ \A i \in DOMAIN taskLog : Len(taskLog[i].states) >= 2

\* C38: the terminal counters never add up to more than task_received, each
\* received task is counted in one of them when it finishes, and with no
\* task in flight their sum is task_received.
C38_TerminalCountersPartition ==
    LET sum == metrics.task_completed + metrics.task_failed + metrics.task_timeout
        With(status) == Cardinality({i \in Finished : tasks[i].result.status = status})
    IN  /\ sum <= metrics.task_received
        /\ sum = Cardinality(Finished)
        /\ metrics.task_received = Len(tasks)
        /\ metrics.task_completed = With("success")
        /\ metrics.task_failed = With("error")
        /\ metrics.task_timeout = With("timeout")
        /\ InFlight = {} => sum = metrics.task_received

\* two tasks received, one failed and one timed out, none in flight
C38_TwoCountedNoneInFlight ==
    /\ InFlight = {}
    /\ metrics.task_received = 2
    /\ metrics.task_failed = 1
    /\ metrics.task_timeout = 1

\* C39: at most one accepted assignment is waiting for a permit, and while
\* the loop waits for it no further message is read from the subscription.
C39_AtMostOneQueued ==
    /\ [](Cardinality({i \in DOMAIN taskLog : Len(taskLog[i].states) = 1}) <= 1)
    /\ [][loopPc = "acquire" => msg' = msg]_vars

\* the loop waits for a permit with the subscription active and events left
\* for the environment to send
C39_WaitingWithMessagesLeft ==
    /\ loopPc = "acquire"
    /\ Waiting(semaphore, "loop")
    /\ subscription = "active"
    /\ env < MaxEvents
    /\ Cardinality({i \in DOMAIN taskLog : Len(taskLog[i].states) = 1}) = 1

\* C40: subs_active is 0 once shutdown has completed: the loop writes no 1
\* after the supervisor's write of 0.
C40_SubsInactiveAfterShutdown ==
    /\ [](mainPc = "exited" => metrics.subs_active = 0)
    /\ [][shutdown => (metrics'.subs_active = 1 => metrics.subs_active = 1)]_vars

=============================================================================
